---- MODULE Spec2Model ----
(***************************************************************************)
(* Model of the randomized trajectory generator of x_xy                    *)
(* (src/x_xy/algorithms/_random.py): random_angle_over_time,               *)
(* random_position_over_time, _resolve_range_of_motion and cosInterpolate. *)
(*                                                                         *)
(* Numbers.  The program computes in floating point; the model computes in *)
(* integers:                                                               *)
(*   - times (T, Ts, t_min, t_max, t, dt) are whole ticks;                 *)
(*   - angles and positions are whole value units, with Pi units to pi;    *)
(*   - a uniform draw from [a, b] is a choice among the integers a..b;     *)
(*   - interpolated samples are kept as numerators over OutUnit, and the   *)
(*     cosine is the fixed-point rational approximation CosFx.             *)
(* Every random draw is a nondeterministic choice (\E) over the support of *)
(* its distribution.                                                       *)
(***************************************************************************)
EXTENDS Integers, Sequences, FiniteSets, TLC

VARIABLES
    cfg,        \* the arguments of the call (never change after Init)
    pc,         \* position of the call: "outer", "inner", "done"
    i,          \* outer loop: index of the next breakpoint slot (val[0])
    t,          \* outer loop: current time
    phi,        \* angle mode: current angle (prev_phi of the inner loop)
    t_pre,      \* position mode: time of the previous breakpoint
    x,          \* position mode: candidate / current position
    x_pre,      \* position mode: position of the previous breakpoint
    dt,         \* angle mode: the time step drawn in this outer step
    ii,         \* inner loop counter (the `i` of the inner while_loop)
    next_phi,   \* angle mode: candidate of the inner loop
    BUF,        \* the preallocated breakpoint buffer ANG / POS: rows <<time, value>>
    produced,   \* history: every breakpoint in production order (slot 0 first)
    q,          \* the returned array (numerators over OutUnit); <<>> until done
    ci,         \* cosInterpolate called on its own: arguments and result
    cdf,        \* _generate_cdf: arguments, draws and result
    fk,         \* forward_kinematics_transforms: system, scan position, eps_to_l
    ik,         \* inverse_kinematics_endeffector: starts, runs, returned pair
    reg,        \* the joint type registry and the outcome of the last call on it
    imu,        \* sensors.imu: options, position in the pipeline, measurements
    xml,        \* load_sys_from_str: document, recursion stack, link tables
    det,        \* repeated generator calls: seeds, PRNG values seen, first result
    fkc,        \* forward_kinematics calls on one system: object store, results
    ma,         \* _moving_average called on its own: arguments and result
    log,        \* DictLogger: the stored series and the metrics logged so far
    io          \* save_sys_to_str / load_sys_from_str: system, document, reload

\* the state of one random_angle_over_time / random_position_over_time call
randVars == <<cfg, pc, i, t, phi, t_pre, x, x_pre, dt, ii, next_phi, BUF, produced, q>>

\* the state of the functions modelled last
aux == <<fkc, ma, log, io>>

\* the state of the other functions
ext == <<ci, cdf, fk, ik, reg, imu, xml, det, aux>>

vars == <<randVars, ext>>

\* a function that is not being called
Off == [pc |-> "off"]

----------------------------------------------------------------------------
(* Bounds of the model *)

MaxT == 3
MaxTs == 2
MaxTmin == 2
MaxCap == 3
MaxTmax == 2
MaxIter == 1
MaxRate == 2
MaxDelta == 2
PosBand == 2
Pi == 3
CosUnit == 1000

----------------------------------------------------------------------------
(* Arithmetic helpers *)

Abs(a) == IF a < 0 THEN -a ELSE a

Min(a, b) == IF a < b THEN a ELSE b

Max(a, b) == IF a > b THEN a ELSE b

\* jnp.clip(v, lo, hi) == minimum(maximum(v, lo), hi)
clip(v, lo, hi) == Min(Max(v, lo), hi)

\* jnp.floor(t / Ts) * Ts
FloorTs(tt, Ts) == (tt \div Ts) * Ts

\* numerators: an output sample s stands for the real value s / OutUnit
OutUnit == 2 * CosUnit

\* CosUnit * cos(pi * a / b) for 0 <= a <= b, b > 0, in fixed point
\* (Bhaskara's rational approximation; exact at a/b = 0, 1/3, 1/2, 2/3, 1).
CosFx(a, b) ==
    IF 2 * a <= b
    THEN (CosUnit * (b * b - 4 * a * a)) \div (b * b + a * a)
    ELSE -((CosUnit * (b * b - 4 * (b - a) * (b - a))) \div (b * b + (b - a) * (b - a)))

----------------------------------------------------------------------------
(* Array helpers (0-based indices as in the source, 1-based sequences) *)

\* jnp.zeros((n, 2)).at[0, 1].set(v0): rows <<time, value>>
Prealloc(n, v0) == [k \in 1..n |-> IF k = 1 THEN <<0, v0>> ELSE <<0, 0>>]

\* capacity of the preallocated buffer: int(T // t_min) + 1
Capacity(T, tmin) == (T \div tmin) + 1

\* jax.lax.dynamic_update_slice_in_dim(A, row, start_index, axis=0) for a
\* one-row update: an out-of-range start index is clamped into the array.
dynamic_update_slice_in_dim(A, row, start) ==
    [A EXCEPT ![clip(start, 0, Len(A) - 1) + 1] = row]

\* jax.lax.dynamic_index_in_dim(A, index): the index is clamped as well.
dynamic_index_in_dim(A, index) == A[clip(index, 0, Len(A) - 1) + 1]

\* jnp.where((jnp.arange(len(A)) < end)[:, None], A, A[end - 1])
FillTail(A, end) ==
    [k \in 1..Len(A) |-> IF k - 1 < end THEN A[k] ELSE dynamic_index_in_dim(A, end - 1)]

\* variant of arange that stops after floor(T / Ts) points
arange_floor(T, Ts) == [k \in 1..(T \div Ts) |-> (k - 1) * Ts]

\* jnp.arange(T, step=Ts): 0, Ts, 2 Ts, ... < T
arange(T, Ts) == [k \in 1..((T + Ts - 1) \div Ts) |-> (k - 1) * Ts]

Col(A, c) == [k \in 1..Len(A) |-> A[k][c]]

----------------------------------------------------------------------------
(* cosInterpolate *)

\* jnp.searchsorted(xp, v, side="right") on a non-decreasing xp
searchsorted_left(xp, v) == Cardinality({k \in 1..Len(xp) : xp[k] < v})

searchsorted_right(xp, v) == Cardinality({k \in 1..Len(xp) : xp[k] <= v})

\* a[k] with Python's wrap of a negative index, k 0-based
At(a, k) == IF k < 0 THEN a[k + Len(a) + 1] ELSE a[k + 1]

\* one element of cosInterpolate(x, xp, fp), as a numerator over OutUnit
cosInterpolate1(v, xp, fp) ==
    LET n == Len(xp)
        k == clip(searchsorted_right(xp, v), 1, n - 1)
        dx == At(xp, k) - At(xp, k - 1)
        a == v - At(xp, k - 1)
        x1 == At(fp, k - 1)
        x2 == At(fp, k)
    IN  IF v > xp[n] THEN fp[n] * OutUnit
        ELSE IF dx = 0 THEN x2 * OutUnit
        ELSE (x1 + x2) * CosUnit + (x1 - x2) * CosFx(a, dx)

cosInterpolate(xs, xp, fp) == [k \in 1..Len(xs) |-> cosInterpolate1(xs[k], xp, fp)]

\* maths.wrap_to_pi on numerators over OutUnit: into (-pi, pi]
wrap_to_pi(v) ==
    LET P == Pi * OutUnit
    IN  P - ((P - v) % (2 * P))

----------------------------------------------------------------------------
(* _resolve_range_of_motion: the angle rejection loop *)

\* variant of _clip_to_pi that leaves the angle as it is
_no_clip(a) == a

_clip_to_pi(a) == clip(a, -Pi, Pi)

\* variant of SignSet without the hard clamp: both signs at every angle
SignSet_no_hardcut(method, prev_phi) == {1, -1}

\* the signs random.choice([1.0, -1.0], p=[p, 1 - p]) can return
SignSet(method, prev_phi) ==
    IF method = "coinflip" THEN {1, -1}
    ELSE \* "uniform": p = 0.5 (1 - prev_phi / pi);
         \* "sigmoid": p = 0 above pi - 0.01, 1 below -(pi - 0.01), else in (0, 1)
         {s \in {1} : prev_phi < Pi} \cup {s \in {-1} : prev_phi > -Pi}

\* the values _next_phi can return
next_phi_set(rom, method, dang_min, dang_max, d, prev_phi) ==
    IF rom
    THEN UNION {
            LET lo == _clip_to_pi(prev_phi + s * dang_min * d)
                up == _clip_to_pi(prev_phi + s * dang_max * d)
            IN  Min(lo, up)..Max(lo, up)
            : s \in SignSet(method, prev_phi)}
    ELSE {prev_phi + s * r * d : s \in {1, -1}, r \in dang_min..dang_max}

\* variant of cond_fn whose cap test is off by one (n > max_iter + 1)
cond_fn_late_cap(cand, prev_phi, n, delta_ang_min, delta_ang_max, max_iter) ==
    LET delta_phi == Abs(cand - prev_phi)
        break_if_true1 == (delta_phi >= delta_ang_min) /\ (delta_phi <= delta_ang_max)
        break_if_true2 == n > max_iter + 1
    IN  (n = 0) \/ ~(break_if_true1 \/ break_if_true2)

\* variant of cond_fn that tests only the upper bound of delta_phi
cond_fn_no_lower(cand, prev_phi, n, delta_ang_min, delta_ang_max, max_iter) ==
    LET delta_phi == Abs(cand - prev_phi)
        break_if_true1 == delta_phi <= delta_ang_max
        break_if_true2 == n > max_iter
    IN  (n = 0) \/ ~(break_if_true1 \/ break_if_true2)

\* variant of cond_fn without the forced first iteration
cond_fn_no_first(cand, prev_phi, n, delta_ang_min, delta_ang_max, max_iter) ==
    LET delta_phi == Abs(cand - prev_phi)
        break_if_true1 == (delta_phi >= delta_ang_min) /\ (delta_phi <= delta_ang_max)
        break_if_true2 == n > max_iter
    IN  ~(break_if_true1 \/ break_if_true2)

\* cond_fn of the angle loop: TRUE means draw (again)
cond_fn(cand, prev_phi, n, delta_ang_min, delta_ang_max, max_iter) ==
    LET delta_phi == Abs(cand - prev_phi)
        break_if_true1 == (delta_phi >= delta_ang_min) /\ (delta_phi <= delta_ang_max)
        break_if_true2 == n > max_iter
    IN  (n = 0) \/ ~(break_if_true1 \/ break_if_true2)

----------------------------------------------------------------------------
(* random_position_over_time: the inner rejection loop *)

\* variant of InBand that omits the test x <= pos_max
InBand_no_upper(tt, tpre, xx, xpre, dpos_min, dpos_max, pos_min, pos_max) ==
    /\ Abs(xx - xpre) < dpos_max * (tt - tpre)
    /\ Abs(xx - xpre) > dpos_min * (tt - tpre)
    /\ xx >= pos_min

\* break_if_true1 of cond_fn_inner: dpos = |x - x_pre| / (t - t_pre), t > t_pre
InBand(tt, tpre, xx, xpre, dpos_min, dpos_max, pos_min, pos_max) ==
    /\ Abs(xx - xpre) < dpos_max * (tt - tpre)
    /\ Abs(xx - xpre) > dpos_min * (tt - tpre)
    /\ xx >= pos_min
    /\ xx <= pos_max

\* cond_fn_inner: TRUE means draw (again)
cond_fn_inner(n, tt, tpre, xx, xpre, c) ==
    LET break_if_true1 ==
            InBand(tt, tpre, xx, xpre, c.dpos_min, c.dpos_max, c.pos_min, c.pos_max)
        break_if_true2 == n > c.max_it
    IN  ~(break_if_true1 \/ break_if_true2)

\* the displacements body_fn_inner can produce at inner count n
dx_set(n, d, c) ==
    IF n > c.max_it
    THEN {0}
    ELSE {s * r * d : s \in {-1, 1}, r \in c.dpos_min..c.dpos_max}

----------------------------------------------------------------------------
(* The calls the model explores *)

TimeArgs ==
    {a \in [T : 1..MaxT, Ts : 1..MaxTs, t_min : 1..MaxTmin, t_max : 1..MaxTmax] :
        a.t_min <= a.t_max /\ Capacity(a.T, a.t_min) <= MaxCap}

\* the sampling policies explored: <<range_of_motion, range_of_motion_method,
\* ANG_0, delta_ang_min>>
Policies ==
    {<<FALSE, "uniform", 0, 0>>, <<FALSE, "uniform", Pi + 1, MaxDelta>>,
     <<TRUE, "coinflip", 0, MaxDelta>>, <<TRUE, "uniform", Pi, 0>>,
     <<TRUE, "sigmoid", -1, 1>>}

\* arguments of random_angle_over_time (constant bounds, cosine interpolation)
AngleConfigs ==
    {[mode |-> "angle", T |-> a.T, Ts |-> a.Ts, t_min |-> a.t_min, t_max |-> a.t_max,
      ANG_0 |-> pl[3], dang_min |-> MaxRate - 1, dang_max |-> MaxRate,
      delta_ang_min |-> pl[4], delta_ang_max |-> MaxDelta,
      max_iter |-> mi, range_of_motion |-> pl[1], range_of_motion_method |-> pl[2]] :
        a \in TimeArgs, mi \in {0, MaxIter}, pl \in Policies}

\* arguments of random_position_over_time (constant bounds, cosine interpolation)
PosConfigs ==
    {[mode |-> "position", T |-> a.T, Ts |-> a.Ts, t_min |-> a.t_min, t_max |-> a.t_max,
      POS_0 |-> p0, pos_min |-> -PosBand, pos_max |-> PosBand,
      dpos_min |-> MaxRate - 2, dpos_max |-> MaxRate, max_it |-> mi] :
        a \in TimeArgs, p0 \in {0, 1}, mi \in {0, MaxIter}}

Init ==
    /\ cfg \in AngleConfigs \cup PosConfigs
    /\ pc = "outer"
    /\ i = 1
    /\ t = 0
    /\ phi = IF cfg.mode = "angle" THEN cfg.ANG_0 ELSE 0
    /\ t_pre = 0
    /\ x = 0
    /\ x_pre = 0
    /\ dt = 0
    /\ ii = 0
    /\ next_phi = 0
    /\ BUF = Prealloc(Capacity(cfg.T, cfg.t_min),
                      IF cfg.mode = "angle" THEN cfg.ANG_0 ELSE cfg.POS_0)
    /\ produced = <<BUF[1]>>
    /\ q = <<>>
    /\ ci = Off /\ cdf = Off /\ fk = Off /\ ik = Off
    /\ reg = Off /\ imu = Off /\ xml = Off /\ det = Off
    /\ fkc = Off /\ ma = Off /\ log = Off /\ io = Off

----------------------------------------------------------------------------
(* random_angle_over_time *)

\* body_fn_outer, up to the call of _resolve_range_of_motion: draw dt, enter the
\* rejection loop with val = (key, prev_phi, 0)
AngOuterBeginDraw(d) ==
    /\ cfg.mode = "angle" /\ pc = "outer"
    /\ t <= cfg.T
    /\ dt' = d
    /\ ii' = 0
    /\ next_phi' = phi
    /\ pc' = "inner"
    /\ UNCHANGED <<cfg, i, t, phi, t_pre, x, x_pre, BUF, produced, q>>

AngOuterBegin ==
    /\ \E d \in cfg.t_min..cfg.t_max : AngOuterBeginDraw(d)
    /\ UNCHANGED ext

\* body_fn of the rejection loop: one candidate draw
AngInnerBodyDraw(cand) ==
    /\ cfg.mode = "angle" /\ pc = "inner"
    /\ cond_fn(next_phi, phi, ii, cfg.delta_ang_min, cfg.delta_ang_max, cfg.max_iter)
    /\ next_phi' = cand
    /\ ii' = ii + 1
    /\ UNCHANGED <<cfg, pc, i, t, phi, t_pre, x, x_pre, dt, BUF, produced, q>>

AngInnerBody ==
    /\ cfg.mode = "angle"
    /\ \E cand \in next_phi_set(cfg.range_of_motion, cfg.range_of_motion_method,
                                 cfg.dang_min, cfg.dang_max, dt, phi) :
          AngInnerBodyDraw(cand)
    /\ UNCHANGED ext

\* variant of t_recorded that stamps the time at the start of the step
t_at_step_start(t0, d) == t0

\* the time body_fn_outer stamps on its breakpoint: `t += dt` precedes ANG_i
t_recorded(t0, d) == t0 + d

\* the rest of body_fn_outer: the loop returned next_phi; advance t, record
AngOuterEnd ==
    /\ cfg.mode = "angle" /\ pc = "inner"
    /\ ~cond_fn(next_phi, phi, ii, cfg.delta_ang_min, cfg.delta_ang_max, cfg.max_iter)
    /\ phi' = next_phi
    /\ t' = t + dt
    /\ LET ANG_i == <<FloorTs(t_recorded(t, dt), cfg.Ts), phi'>>
       IN  /\ BUF' = dynamic_update_slice_in_dim(BUF, ANG_i, i)
           /\ produced' = Append(produced, ANG_i)
    /\ i' = i + 1
    /\ pc' = "outer"
    /\ UNCHANGED <<cfg, t_pre, x, x_pre, dt, ii, next_phi, q>>
    /\ UNCHANGED ext

\* after the outer loop: fill the tail, resample, wrap unless range_of_motion
AngResample ==
    /\ cfg.mode = "angle" /\ pc = "outer"
    /\ ~(t <= cfg.T)
    /\ BUF' = FillTail(BUF, i)
    /\ LET r == cosInterpolate(arange(cfg.T, cfg.Ts), Col(BUF', 1), Col(BUF', 2))
       IN  q' = IF cfg.range_of_motion THEN r
                ELSE [k \in 1..Len(r) |-> wrap_to_pi(r[k])]
    /\ pc' = "done"
    /\ UNCHANGED <<cfg, i, t, phi, t_pre, x, x_pre, dt, ii, next_phi, produced>>
    /\ UNCHANGED ext

----------------------------------------------------------------------------
(* random_position_over_time *)

\* body_fn_outer: draw the step, enter the inner loop with val_inner
PosOuterBeginDraw(d) ==
    /\ cfg.mode = "position" /\ pc = "outer"
    /\ t <= cfg.T
    /\ t' = t + d
    /\ ii' = 0
    /\ pc' = "inner"
    /\ UNCHANGED <<cfg, i, phi, t_pre, x, x_pre, dt, next_phi, BUF, produced, q>>

PosOuterBegin ==
    /\ \E d \in cfg.t_min..cfg.t_max : PosOuterBeginDraw(d)
    /\ UNCHANGED ext

\* body_fn_inner: one candidate draw
PosInnerBodyDraw(dx) ==
    /\ cfg.mode = "position" /\ pc = "inner"
    /\ cond_fn_inner(ii, t, t_pre, x, x_pre, cfg)
    /\ x' = x_pre + dx
    /\ ii' = ii + 1
    /\ UNCHANGED <<cfg, pc, i, t, phi, t_pre, x_pre, dt, next_phi, BUF, produced, q>>

PosInnerBody ==
    /\ cfg.mode = "position"
    /\ \E dx \in dx_set(ii, t - t_pre, cfg) : PosInnerBodyDraw(dx)
    /\ UNCHANGED ext

\* the rest of body_fn_outer: record the breakpoint
PosOuterEnd ==
    /\ cfg.mode = "position" /\ pc = "inner"
    /\ ~cond_fn_inner(ii, t, t_pre, x, x_pre, cfg)
    /\ LET POS_i == <<FloorTs(t, cfg.Ts), x>>
       IN  /\ BUF' = dynamic_update_slice_in_dim(BUF, POS_i, i)
           /\ produced' = Append(produced, POS_i)
    /\ t_pre' = t
    /\ x_pre' = x
    /\ i' = i + 1
    /\ pc' = "outer"
    /\ UNCHANGED <<cfg, t, phi, x, dt, ii, next_phi, q>>
    /\ UNCHANGED ext

\* after the outer loop: fill the tail, resample
PosResample ==
    /\ cfg.mode = "position" /\ pc = "outer"
    /\ ~(t <= cfg.T)
    /\ BUF' = FillTail(BUF, i)
    /\ q' = cosInterpolate(arange(cfg.T, cfg.Ts), Col(BUF', 1), Col(BUF', 2))
    /\ pc' = "done"
    /\ UNCHANGED <<cfg, i, t, phi, t_pre, x, x_pre, dt, ii, next_phi, produced>>
    /\ UNCHANGED ext

Next ==
    \/ AngOuterBegin
    \/ AngInnerBody
    \/ AngOuterEnd
    \/ AngResample
    \/ PosOuterBegin
    \/ PosInnerBody
    \/ PosOuterEnd
    \/ PosResample

Spec == Init /\ [][Next]_vars

----------------------------------------------------------------------------
(* Properties *)

\* the iteration cap of the call: max_iter (angle) or max_it (position)
Cap == IF cfg.mode = "angle" THEN cfg.max_iter ELSE cfg.max_it

\* the breakpoint recorded last, and the one before it
LastBp == produced[Len(produced)]

PrevBp == produced[Len(produced) - 1]

\* C1: every call of an inner rejection loop draws at most cap + 1 candidates
\* (max_iter + 1 in the angle loop, max_it + 1 per outer step in position mode).
C1_InnerLoopBounded == ii <= Cap + 1

\* a rejection loop that was stopped by its cap after cap + 1 >= 2 draws
C1_Witness ==
    /\ pc = "outer" /\ i > 1
    /\ Cap >= 1 /\ ii = Cap + 1
    /\ cfg.mode = "angle"
    /\ Abs(LastBp[2] - PrevBp[2]) < cfg.delta_ang_min

\* C2: in position mode a step whose loop ran into the cap without a candidate in
\* the bands records the previous value x_pre (zero displacement).
C2_ForcedAcceptHoldsPosition ==
    (/\ cfg.mode = "position" /\ pc = "inner"
     /\ ~cond_fn_inner(ii, t, t_pre, x, x_pre, cfg)
     /\ ii > cfg.max_it
     /\ ~InBand(t, t_pre, x, x_pre, cfg.dpos_min, cfg.dpos_max, cfg.pos_min, cfg.pos_max))
    => x = x_pre

\* C3: the outer loop never writes a breakpoint at an index >= capacity, and the
\* number of breakpoints produced (end) is at most the capacity.
C3_NoWriteBeyondCapacity ==
    /\ pc = "inner" => i < Len(BUF)
    /\ i <= Len(BUF)

\* C4 (as claimed): the returned array has exactly floor(T / Ts) samples.
C4_LengthIsFloor == pc = "done" => Len(q) = cfg.T \div cfg.Ts

\* C4 (amended): the returned array has one sample per grid time k Ts < T, that
\* is ceil(T / Ts) samples.
C4_LengthIsCeil ==
    pc = "done" => Len(q) = Cardinality({k \in 0..cfg.T : k * cfg.Ts < cfg.T})

\* a finished call whose T is not a multiple of Ts
C4_Witness ==
    /\ pc = "done"
    /\ cfg.T % cfg.Ts # 0
    /\ cfg.T > cfg.Ts
    /\ Len(q) = (cfg.T \div cfg.Ts) + 1

\* C5: in position mode the first output sample equals POS_0.
C5_FirstSampleIsPOS0 ==
    (cfg.mode = "position" /\ pc = "done") => q[1] = cfg.POS_0 * OutUnit

\* C6: in angle mode the first output sample equals wrap_to_pi(ANG_0) with
\* range-of-motion mode off and ANG_0 with it on.
C6_FirstSampleIsANG0 ==
    (cfg.mode = "angle" /\ pc = "done") =>
        q[1] = IF cfg.range_of_motion THEN cfg.ANG_0 * OutUnit
               ELSE wrap_to_pi(cfg.ANG_0 * OutUnit)

\* C7: an angle returned by the rejection loop after at most max_iter draws
\* differs from the previous angle by at least delta_ang_min and at most
\* delta_ang_max.
C7_NonForcedAngleInBounds ==
    (cfg.mode = "angle" /\ pc \in {"outer", "done"} /\ i > 1 /\ ii <= cfg.max_iter) =>
        /\ cfg.delta_ang_min <= Abs(LastBp[2] - PrevBp[2])
        /\ Abs(LastBp[2] - PrevBp[2]) <= cfg.delta_ang_max

\* an angle accepted below the cap under a lower bound that can fail
C7_Witness ==
    /\ cfg.mode = "angle" /\ pc = "outer" /\ i > 1
    /\ cfg.range_of_motion
    /\ cfg.delta_ang_min > 0
    /\ ii <= cfg.max_iter

\* C8: a position breakpoint recorded after at most max_it draws satisfies the
\* velocity band and the position band, measured from the previous breakpoint:
\* dpos_min <= |x - x_pre| / (t - t_pre) <= dpos_max and pos_min <= x <= pos_max.
C8_NonForcedPositionInBands ==
    [][(cfg.mode = "position" /\ pc = "inner" /\ pc' = "outer" /\ ii <= cfg.max_it) =>
        LET xr == produced'[Len(produced')][2]
        IN  /\ cfg.dpos_min * (t - t_pre) <= Abs(xr - x_pre)
            /\ Abs(xr - x_pre) <= cfg.dpos_max * (t - t_pre)
            /\ cfg.pos_min <= xr
            /\ xr <= cfg.pos_max]_vars

\* a second position breakpoint accepted below the cap, away from the start
C8_Witness ==
    /\ cfg.mode = "position" /\ pc = "outer" /\ i > 2
    /\ ii <= cfg.max_it
    /\ LastBp[2] # 0

\* C9: in position mode with POS_0 inside [pos_min, pos_max] every output sample
\* lies in [pos_min, pos_max].
C9_OutputInPositionBand ==
    (/\ cfg.mode = "position" /\ pc = "done"
     /\ cfg.pos_min <= cfg.POS_0 /\ cfg.POS_0 <= cfg.pos_max) =>
        \A k \in 1..Len(q) :
            cfg.pos_min * OutUnit <= q[k] /\ q[k] <= cfg.pos_max * OutUnit

\* C10: the buffer handed to the interpolation holds the produced breakpoints in
\* production order in slots 0..end-1 and a copy of breakpoint end-1 in every
\* later slot.
C10_BufferIsProducedThenLast ==
    pc = "done" =>
        /\ i <= Len(BUF)
        /\ \A k \in 1..Len(BUF) : BUF[k] = produced[Min(k, i)]

\* C20 as stated: in the angle rejection loop the first drawn candidate is
\* accepted whatever the delta bounds say, that is, after one draw the loop ends.
C20_FirstCandidateAlwaysAccepted ==
    (cfg.mode = "angle" /\ pc = "inner" /\ ii = 1) =>
        ~cond_fn(next_phi, phi, ii, cfg.delta_ang_min, cfg.delta_ang_max, cfg.max_iter)

\* C20 amended: the angle rejection loop always draws at least one candidate,
\* and the first drawn candidate is the one returned only if it satisfies the
\* delta bounds or max_iter = 0; otherwise it is rejected and another is drawn.
C20_FirstIterationForcedOnly ==
    (cfg.mode = "angle" /\ pc \in {"outer", "done"} /\ i > 1) =>
        /\ ii >= 1
        /\ ii = 1 =>
              \/ cfg.max_iter = 0
              \/ /\ cfg.delta_ang_min <= Abs(LastBp[2] - PrevBp[2])
                 /\ Abs(LastBp[2] - PrevBp[2]) <= cfg.delta_ang_max

\* a first candidate outside the delta bounds was rejected: the returned angle
\* is a later draw, taken while the cap allowed another one
C20_Witness ==
    /\ cfg.mode = "angle" /\ pc = "outer" /\ i > 1
    /\ cfg.max_iter >= 1
    /\ ii > 1

\* C21 as stated: in angle mode the timestamp recorded by an outer step is
\* floor(t / Ts) * Ts for the time t at the start of the step, and only
\* afterwards t becomes t + dt.
C21_StampIsStepStartTime ==
    [][(cfg.mode = "angle" /\ pc = "inner" /\ pc' = "outer") =>
        /\ produced'[Len(produced')][1] = FloorTs(t, cfg.Ts)
        /\ t' = t + dt]_vars

\* C21 amended: in angle mode dt and the angle are drawn at the time t at the
\* start of the step, then t becomes t + dt, and the timestamp recorded with
\* the angle is floor((t + dt) / Ts) * Ts, the time at the end of the step.
C21_StampIsStepEndTime ==
    [][(cfg.mode = "angle" /\ pc = "inner" /\ pc' = "outer") =>
        /\ produced'[Len(produced')][1] = FloorTs(t + dt, cfg.Ts)
        /\ produced'[Len(produced')][2] = next_phi
        /\ t' = t + dt]_vars

\* a second angle breakpoint whose timestamp is the end of its step and differs
\* from the timestamp the start of the step would give
C21_Witness ==
    /\ cfg.mode = "angle" /\ pc = "outer" /\ i > 2
    /\ LastBp[1] = FloorTs(t, cfg.Ts)
    /\ LastBp[1] # FloorTs(t - dt, cfg.Ts)
    /\ t - dt > 0

\* C22: with range-of-motion mode on and ANG_0 in [-pi, pi], every breakpoint
\* value recorded by random_angle_over_time and every sample of the returned
\* array lies in [-pi, pi], under each policy and also after a forced accept.
C22_RangeOfMotionStaysInPi ==
    (/\ cfg.mode = "angle" /\ cfg.range_of_motion
     /\ -Pi <= cfg.ANG_0 /\ cfg.ANG_0 <= Pi) =>
        /\ \A k \in 1..Len(produced) : -Pi <= produced[k][2] /\ produced[k][2] <= Pi
        /\ \A k \in 1..Len(BUF) : -Pi <= BUF[k][2] /\ BUF[k][2] <= Pi
        /\ \A k \in 1..Len(q) : -Pi * OutUnit <= q[k] /\ q[k] <= Pi * OutUnit

\* a finished range-of-motion call in which a bound was clipped to the limit
\* and the last angle is a forced accept (its delta is outside the bounds)
C22_Witness ==
    /\ cfg.mode = "angle" /\ cfg.range_of_motion /\ pc = "done"
    /\ \E k \in 2..Len(produced) : Abs(produced[k][2]) = Pi
    /\ ii = cfg.max_iter + 1
    /\ Abs(LastBp[2] - PrevBp[2]) < cfg.delta_ang_min
    /\ \E k \in 1..Len(q) : q[k] # cfg.ANG_0 * OutUnit

\* the candidates of one draw when the sign is s
SignedRange(s) ==
    LET lo == clip(phi + s * cfg.dang_min * dt, -Pi, Pi)
        up == clip(phi + s * cfg.dang_max * dt, -Pi, Pi)
    IN  Min(lo, up)..Max(lo, up)

\* C23: under the sigmoid policy, when the current phi is above pi - 0.01 every
\* candidate is drawn with sign -1, and when phi is below -(pi - 0.01) with
\* sign +1, so that no candidate lies further outward than phi.
C23_SigmoidHardClamp ==
    (/\ cfg.mode = "angle" /\ cfg.range_of_motion
     /\ cfg.range_of_motion_method = "sigmoid"
     /\ pc = "inner" /\ ii >= 1) =>
        /\ phi >= Pi => (next_phi \in SignedRange(-1) /\ next_phi <= phi)
        /\ phi <= -Pi => (next_phi \in SignedRange(1) /\ next_phi >= phi)

\* a sigmoid step that starts at the upper limit, with a candidate drawn inward
C23_Witness ==
    /\ cfg.mode = "angle" /\ cfg.range_of_motion
    /\ cfg.range_of_motion_method = "sigmoid"
    /\ pc = "inner" /\ ii >= 1
    /\ phi = Pi
    /\ next_phi < phi

\* the times of the resampling grid: jnp.arange(T, step=Ts)
Grid == {arange(cfg.T, cfg.Ts)[k] : k \in 1..Len(arange(cfg.T, cfg.Ts))}

\* C26: when the outer loop has exited, the last produced breakpoint has a
\* timestamp >= every time of the resampling grid and the first breakpoint has
\* timestamp 0, so that every output sample is interpolated between two
\* produced breakpoints that enclose its time, and never taken from the
\* clamp-to-last-value branch.
C26_SamplesBetweenProducedBreakpoints ==
    pc = "done" =>
        /\ \A v \in Grid : v <= LastBp[1]
        /\ produced[1][1] = 0 /\ BUF[1][1] = 0
        /\ \A v \in Grid :
              /\ ~(v > BUF[Len(BUF)][1])
              /\ \E k \in 1..(Len(BUF) - 1) :
                    /\ BUF[k][1] <= v /\ v <= BUF[k + 1][1]
                    /\ \E a, b \in 1..Len(produced) :
                          BUF[k] = produced[a] /\ BUF[k + 1] = produced[b]

\* C27: in the first outer step of random_position_over_time the previous
\* position x_pre is POS_0: the first sampled breakpoint is POS_0 + dx and the
\* velocity test of the step measures the displacement from POS_0.
C27_WalkStartsAtPOS0 ==
    (cfg.mode = "position" /\ i = 1 /\ pc = "inner") =>
        /\ x_pre = cfg.POS_0
        /\ ii >= 1 => \E dx \in dx_set(ii - 1, t - t_pre, cfg) : x = cfg.POS_0 + dx

----------------------------------------------------------------------------
(* The functions besides the generators. Each is called on its own: its
   specification starts with the generator idle. *)

\* no generator call in progress
RandOff ==
    /\ cfg = Off /\ pc = "off"
    /\ i = 0 /\ t = 0 /\ phi = 0 /\ t_pre = 0 /\ x = 0 /\ x_pre = 0
    /\ dt = 0 /\ ii = 0 /\ next_phi = 0
    /\ BUF = <<>> /\ produced = <<>> /\ q = <<>>

----------------------------------------------------------------------------
(* cosInterpolate on arbitrary breakpoints *)

MaxBp == 3      \* at most MaxBp breakpoints
MaxX == 2       \* timestamps 0..MaxX
MaxF == 1       \* values -MaxF..MaxF

\* the non-decreasing sequences of n timestamps
SortedSeqs(n) == {xs \in [1..n -> 0..MaxX] : \A k \in 1..(n - 1) : xs[k] <= xs[k + 1]}

\* n breakpoints (xp, fp): sorted timestamps with one value each
Breakpoints(n) ==
    {[xp |-> xs, fp |-> fs] : xs \in SortedSeqs(n), fs \in [1..n -> -MaxF..MaxF]}

InterpInit ==
    /\ RandOff
    /\ \E n \in 1..MaxBp : \E b \in Breakpoints(n) :
          ci = [pc |-> "ready", xp |-> b.xp, fp |-> b.fp, x |-> 0, f |-> 0]
    /\ cdf = Off /\ fk = Off /\ ik = Off
    /\ reg = Off /\ imu = Off /\ xml = Off /\ det = Off
    /\ fkc = Off /\ ma = Off /\ log = Off /\ io = Off

\* cosInterpolate(x, xp, fp) for one query time x
CosInterpolateCall ==
    /\ ci.pc = "ready"
    /\ \E v \in 0..(MaxX + 1) :
          ci' = [ci EXCEPT !.pc = "done", !.x = v,
                           !.f = cosInterpolate1(v, ci.xp, ci.fp)]
    /\ UNCHANGED <<randVars, cdf, fk, ik, reg, imu, xml, det, aux>>

InterpNext == CosInterpolateCall

SpecInterp == InterpInit /\ [][InterpNext]_vars

\* the last breakpoint that has the timestamp of breakpoint k
LastSame(xp, k) == CHOOSE m \in k..Len(xp) :
                       xp[m] = xp[k] /\ \A j \in (m + 1)..Len(xp) : xp[j] # xp[k]

\* C12 as stated: for non-decreasing xp and every index k, cosInterpolate at the
\* query time xp[k] returns fp[k], also when breakpoint k shares its timestamp
\* with a neighbour.
C12_ReturnsValueOfEveryBreakpoint ==
    ci.pc = "done" =>
        \A k \in 1..Len(ci.xp) : ci.xp[k] = ci.x => ci.f = ci.fp[k] * OutUnit

\* C12 amended: for non-decreasing xp and every index k, cosInterpolate at the
\* query time xp[k] returns the value of the last breakpoint that has this
\* timestamp; this is fp[k] exactly when no later breakpoint shares xp[k].
C12_ReturnsValueOfLastAtTimestamp ==
    ci.pc = "done" =>
        \A k \in 1..Len(ci.xp) :
            ci.xp[k] = ci.x => ci.f = ci.fp[LastSame(ci.xp, k)] * OutUnit

\* a query at a timestamp shared by two breakpoints with different values,
\* answered with the later one
C12_Witness ==
    /\ ci.pc = "done"
    /\ \E k \in 1..(Len(ci.xp) - 1) :
          /\ ci.xp[k] = ci.x /\ ci.xp[k + 1] = ci.x
          /\ ci.fp[k] # ci.fp[k + 1]
          /\ ci.f = ci.fp[k + 1] * OutUnit

----------------------------------------------------------------------------
(* _generate_cdf *)

MaxBins == 3    \* cdf_bins_min, cdf_bins_max in 1..MaxBins
MaxInc == 3     \* a uniform sample of [1e-6, 1) is one of 1..MaxInc units

\* jnp.cumsum
RECURSIVE cumsum(_)
cumsum(a) ==
    IF Len(a) = 0 THEN <<>>
    ELSE LET head == cumsum(SubSeq(a, 1, Len(a) - 1))
         IN  Append(head, (IF Len(head) = 0 THEN 0 ELSE head[Len(head)]) + a[Len(a)])

\* jnp.hstack((jnp.array([0.0]), a))
hstack0(a) == <<0>> \o a

\* montonous / montonous[-1]: numerators over the common denominator
normalise(montonous) == [num |-> montonous, den |-> montonous[Len(montonous)]]

\* the results of random.permutation on the mask of cdf_bins ones among dy_max
masks(cdf_bins, dy_max) ==
    {m \in [1..dy_max -> {0, 1}] : cumsum(m)[dy_max] = cdf_bins}

\* variant of the gather that keeps one increment per drawn bin
take_first(dy, mask) == SubSeq(dy, 1, cumsum(mask)[Len(mask)])

\* dy[jnp.cumsum(mask) - 1]: one entry per mask entry, index -1 is the last
gather(dy, mask) == [k \in 1..Len(mask) |-> At(dy, cumsum(mask)[k] - 1)]

\* the arguments of _generate_cdf: cdf_bins_max is absent or >= cdf_bins_min
CdfArgs ==
    {[cdf_bins_min |-> a] : a \in 1..MaxBins} \cup
    {[cdf_bins_min |-> a, cdf_bins_max |-> b] : a \in 1..MaxBins, b \in 1..MaxBins}

CdfInit ==
    /\ RandOff
    /\ cdf \in {[pc |-> "ready", args |-> a, cdf_bins |-> 0, cdf |-> normalise(<<0>>)] :
                 a \in CdfArgs}
    /\ ci = Off /\ fk = Off /\ ik = Off
    /\ reg = Off /\ imu = Off /\ xml = Off /\ det = Off
    /\ fkc = Off /\ ma = Off /\ log = Off /\ io = Off

\* _generate_cdf_min_eq_max(cdf_bins_min)(key)
GenerateCdfMinEqMax ==
    /\ cdf.pc = "ready"
    /\ "cdf_bins_max" \notin DOMAIN cdf.args
    /\ LET cdf_bins == cdf.args.cdf_bins_min
       IN  \E samples \in [1..cdf_bins -> 1..MaxInc] :
               cdf' = [cdf EXCEPT !.pc = "done", !.cdf_bins = cdf_bins,
                                  !.cdf = normalise(cumsum(hstack0(samples)))]
    /\ UNCHANGED <<randVars, ci, fk, ik, reg, imu, xml, det, aux>>

\* _generate_cdf_min_uneq_max(cdf_bins_min, cdf_bins_max)(key); the assert
\* dy_max >= dy_min stops the call before a generator exists
GenerateCdfMinUneqMax ==
    /\ cdf.pc = "ready"
    /\ "cdf_bins_max" \in DOMAIN cdf.args
    /\ LET dy_min == cdf.args.cdf_bins_min
           dy_max == cdf.args.cdf_bins_max
       IN  IF ~(dy_max >= dy_min) THEN cdf' = [cdf EXCEPT !.pc = "raised"]
           ELSE \E cdf_bins \in dy_min..dy_max :
                \E mask \in masks(cdf_bins, dy_max) :
                \E dy \in [1..dy_max -> 1..MaxInc] :
                    cdf' = [cdf EXCEPT !.pc = "done", !.cdf_bins = cdf_bins,
                                       !.cdf = normalise(cumsum(hstack0(gather(dy, mask))))]
    /\ UNCHANGED <<randVars, ci, fk, ik, reg, imu, xml, det, aux>>

CdfNext ==
    \/ GenerateCdfMinEqMax
    \/ GenerateCdfMinUneqMax

SpecCdf == CdfInit /\ [][CdfNext]_vars

\* strictly increasing, from 0 to 1
IsCdf(c) ==
    /\ c.den > 0
    /\ c.num[1] = 0
    /\ c.num[Len(c.num)] = c.den
    /\ \A k \in 1..(Len(c.num) - 1) : c.num[k] < c.num[k + 1]

----------------------------------------------------------------------------
(* forward_kinematics_transforms. Transforms are planar: a rotation in quarter
   turns and a translation. *)

MaxLinks == 3   \* at most MaxLinks links

\* base.Transform.zero()
Zero == [rot |-> 0, pos |-> <<0, 0>>]

\* maths.rotate by k quarter turns
rotate(v, k) ==
    CASE k % 4 = 0 -> v
      [] k % 4 = 1 -> <<-v[2], v[1]>>
      [] k % 4 = 2 -> <<-v[1], -v[2]>>
      [] k % 4 = 3 -> <<v[2], -v[1]>>

\* algebra.transform_mul(t2, t1): first t1, then t2
transform_mul(t2, t1) ==
    LET p == rotate(t2.pos, -t1.rot)
    IN  [rot |-> (t2.rot + t1.rot) % 4, pos |-> <<t1.pos[1] + p[1], t1.pos[2] + p[2]>>]

\* jcalc_transform(joint_type, q, joint_params)
jcalc_transform(joint_type, qv, joint_params) ==
    CASE joint_type = "frozen" -> Zero
      [] joint_type = "rz" -> [rot |-> qv % 4, pos |-> <<0, 0>>]
      [] joint_type = "px" -> [rot |-> 0, pos |-> <<qv, 0>>]

\* variant of the world update that multiplies from the other side
update_world_swapped(transform, eps_to_l, parent_idx) ==
    transform_mul(eps_to_l[parent_idx], transform)

\* eps_to_l[link_idx] of update_eps_to_l
update_world(transform, eps_to_l, parent_idx) ==
    transform_mul(transform, eps_to_l[parent_idx])

\* a link with its slice of q: joint type, joint angle or offset, transform1
LinkKinds ==
    {[joint_type |-> "frozen", q |-> 0, joint_params |-> 0, transform1 |-> Zero],
     [joint_type |-> "frozen", q |-> 0, joint_params |-> 0,
      transform1 |-> [rot |-> 0, pos |-> <<1, 0>>]],
     [joint_type |-> "rz", q |-> 1, joint_params |-> 0, transform1 |-> Zero],
     [joint_type |-> "px", q |-> 1, joint_params |-> 0,
      transform1 |-> [rot |-> 1, pos |-> <<0, 0>>]]}

\* the parent arrays of n links: -1 or an earlier link
ParentArrays(n) == {lp \in [0..(n - 1) -> -1..(n - 2)] : \A j \in 0..(n - 1) : lp[j] < j}

FkInit ==
    /\ RandOff
    /\ \E n \in 1..MaxLinks : \E lp \in ParentArrays(n) : \E ls \in [0..(n - 1) -> LinkKinds] :
          fk = [pc |-> "scan", num_links |-> n, link_parents |-> lp, links |-> ls,
                link_idx |-> 0, eps_to_l |-> (-1 :> Zero),
                transform |-> <<>>, transform2 |-> <<>>, x |-> <<>>]
    /\ ci = Off /\ cdf = Off /\ ik = Off
    /\ reg = Off /\ imu = Off /\ xml = Off /\ det = Off
    /\ fkc = Off /\ ma = Off /\ log = Off /\ io = Off

\* update_eps_to_l for the next link of the scan
UpdateEpsToL ==
    /\ fk.pc = "scan"
    /\ fk.link_idx < fk.num_links
    /\ LET link_idx == fk.link_idx
           link == fk.links[link_idx]
           parent_idx == fk.link_parents[link_idx]
           transform2 == jcalc_transform(link.joint_type, link.q, link.joint_params)
           transform == transform_mul(transform2, link.transform1)
       IN  fk' = [fk EXCEPT
                    !.transform2 = Append(@, transform2),
                    !.transform = Append(@, transform),
                    !.eps_to_l = (link_idx :> update_world(transform, @, parent_idx)) @@ @,
                    !.link_idx = link_idx + 1]
    /\ UNCHANGED <<randVars, ci, cdf, ik, reg, imu, xml, det, aux>>

\* the scan is over: the stacked eps_to_l of the links is returned
FkReturn ==
    /\ fk.pc = "scan"
    /\ fk.link_idx = fk.num_links
    /\ fk' = [fk EXCEPT !.pc = "done",
                        !.x = [j \in 1..fk.num_links |-> fk.eps_to_l[j - 1]]]
    /\ UNCHANGED <<randVars, ci, cdf, ik, reg, imu, xml, det, aux>>

FkNext ==
    \/ UpdateEpsToL
    \/ FkReturn

SpecFk == FkInit /\ [][FkNext]_vars

\* the composition of the links' transforms from link j up to the root
RECURSIVE Chain(_)
Chain(j) ==
    IF j = -1 THEN Zero
    ELSE transform_mul(fk.transform[j + 1], Chain(fk.link_parents[j]))

\* the world transform of the parent of link j
ParentWorld(j) == IF fk.link_parents[j] = -1 THEN Zero ELSE fk.x[fk.link_parents[j] + 1]

\* C13: forward_kinematics_transforms computes for every link i
\* transform2[i] = joint_transform(type, q_i, params), transform[i] =
\* transform2[i] o transform1[i] and world[i] = transform[i] o world[parent[i]]
\* with the identity for the virtual root -1; so world[i] is the ordered
\* composition of the transforms of the ancestor chain of i, and a link whose
\* transform is the identity has exactly its parent's world transform.
C13_WorldIsChainComposition ==
    fk.pc = "done" =>
        \A j \in 0..(fk.num_links - 1) :
            LET link == fk.links[j]
            IN  /\ fk.transform2[j + 1] =
                       jcalc_transform(link.joint_type, link.q, link.joint_params)
                /\ fk.transform[j + 1] = transform_mul(fk.transform2[j + 1], link.transform1)
                /\ fk.x[j + 1] = transform_mul(fk.transform[j + 1], ParentWorld(j))
                /\ fk.x[j + 1] = Chain(j)
                /\ fk.transform[j + 1] = Zero => fk.x[j + 1] = ParentWorld(j)

\* a chain of three links whose transforms do not commute, ending in a link
\* with the identity transform below a parent away from the origin
C13_Witness ==
    /\ fk.pc = "done"
    /\ fk.num_links = 3
    /\ fk.link_parents[1] = 0 /\ fk.link_parents[2] = 1
    /\ transform_mul(fk.transform[1], fk.transform[2]) #
           transform_mul(fk.transform[2], fk.transform[1])
    /\ fk.transform[3] = Zero
    /\ fk.x[3] # Zero

----------------------------------------------------------------------------
(* forward_kinematics called repeatedly on the objects a caller holds. The
   System, its links and the State are objects of a store; a call receives
   references and returns references. *)

MaxSysLinks == 2    \* the system has at most MaxSysLinks links
MaxFkCalls == 2     \* at most MaxFkCalls calls of forward_kinematics

\* obj.replace(**fields) of a dataclass: a new object, the old one is kept
replace(store, ref, fields) ==
    [store |-> Append(store, fields @@ store[ref]), ref |-> Len(store) + 1]

\* transform2 and transform of update_eps_to_l for link j of links, with q
link_transform2(links, qv, j) ==
    jcalc_transform(links.joint_type[j], qv[j], links.joint_params[j])

link_transform(links, qv, j) ==
    transform_mul(link_transform2(links, qv, j), links.transform1[j])

\* eps_to_l after the scan over all links, computed in index order
RECURSIVE scan_eps_to_l(_, _, _, _, _)
scan_eps_to_l(links, link_parents, qv, link_idx, eps_to_l) ==
    IF link_idx = Len(link_parents) + 1 THEN eps_to_l
    ELSE scan_eps_to_l(links, link_parents, qv, link_idx + 1,
             ((link_idx - 1) :> update_world(link_transform(links, qv, link_idx),
                                            eps_to_l, link_parents[link_idx]))
             @@ eps_to_l)

\* variant of forward_kinematics_transforms that assigns the updated links to
\* the system it was given (sys.links = updated_links)
forward_kinematics_transforms_assign(store, sys, qv) ==
    LET links == store[store[sys].links]
        n == Len(store[sys].link_parents)
        eps_to_l == scan_eps_to_l(links, store[sys].link_parents, qv, 1, (-1 :> Zero))
        updated_links ==
            replace(store, store[sys].links,
                    [transform |-> [j \in 1..n |-> link_transform(links, qv, j)],
                     transform2 |-> [j \in 1..n |-> link_transform2(links, qv, j)]])
    IN  [x |-> [j \in 1..n |-> eps_to_l[j - 1]],
         store |-> [updated_links.store EXCEPT ![sys].links = updated_links.ref],
         sys |-> sys]

\* forward_kinematics_transforms(sys, q) on the store: the stacked eps_to_l and
\* the reference of the system made by sys.replace(links=updated_links)
forward_kinematics_transforms(store, sys, qv) ==
    LET links == store[store[sys].links]
        n == Len(store[sys].link_parents)
        eps_to_l == scan_eps_to_l(links, store[sys].link_parents, qv, 1, (-1 :> Zero))
        updated_links ==
            replace(store, store[sys].links,
                    [transform |-> [j \in 1..n |-> link_transform(links, qv, j)],
                     transform2 |-> [j \in 1..n |-> link_transform2(links, qv, j)]])
        new_sys == replace(updated_links.store, sys, [links |-> updated_links.ref])
    IN  [x |-> [j \in 1..n |-> eps_to_l[j - 1]], store |-> new_sys.store,
         sys |-> new_sys.ref]

\* forward_kinematics(sys, state): the references of the returned pair
forward_kinematics(store, sys, state) ==
    LET r == forward_kinematics_transforms(store, sys, store[state].q)
        new_state == replace(r.store, state, [x |-> r.x])
    IN  [store |-> new_state.store, sys |-> r.sys, state |-> new_state.ref]

\* the links of a system of n links: joint types, parameters, transform1 and
\* the cached fields as a previous owner left them
LinksObjects(n) ==
    {[kind |-> "links",
      joint_type |-> [j \in 1..n |-> ls[j].joint_type],
      joint_params |-> [j \in 1..n |-> ls[j].joint_params],
      transform1 |-> [j \in 1..n |-> ls[j].transform1],
      transform |-> [j \in 1..n |-> Zero],
      transform2 |-> [j \in 1..n |-> Zero]] : ls \in [1..n -> LinkKinds]}

FkCallsInit ==
    /\ RandOff
    /\ \E n \in 1..MaxSysLinks : \E lp \in ParentArrays(n) :
       \E lo \in LinksObjects(n) :
          LET store == <<[kind |-> "sys", links |-> 2,
                          link_parents |-> [j \in 1..n |-> lp[j - 1]]],
                         lo,
                         [kind |-> "state", q |-> [j \in 1..n |-> 0],
                          x |-> [j \in 1..n |-> Zero]],
                         [kind |-> "state", q |-> [j \in 1..n |-> 1],
                          x |-> [j \in 1..n |-> Zero]]>>
          IN  fkc = [store |-> store, made |-> store, calls |-> <<>>]
    /\ ci = Off /\ cdf = Off /\ fk = Off /\ ik = Off
    /\ reg = Off /\ imu = Off /\ xml = Off /\ det = Off
    /\ ma = Off /\ log = Off /\ io = Off

\* the caller passes a system it holds, the given one or a returned one, and
\* one of its two states; `made` keeps every object as it was when handed out
ForwardKinematics ==
    /\ fkc # Off
    /\ Len(fkc.calls) < MaxFkCalls
    /\ \E sys \in {r \in 1..Len(fkc.store) : fkc.store[r].kind = "sys"} :
       \E state \in {3, 4} :
          LET r == forward_kinematics(fkc.store, sys, state)
          IN  fkc' = [store |-> r.store,
                      made |-> [k \in 1..Len(r.store) |->
                                   IF k <= Len(fkc.made) THEN fkc.made[k] ELSE r.store[k]],
                      calls |-> Append(fkc.calls,
                                   [sys |-> sys, state |-> state,
                                    sys_out |-> r.sys, state_out |-> r.state])]
    /\ UNCHANGED <<randVars, ci, cdf, fk, ik, reg, imu, xml, det, ma, log, io>>

FkCallsNext == ForwardKinematics

SpecFkCalls == FkCallsInit /\ [][FkCallsNext]_vars

\* the world transforms of a system's links for the coordinates qv, from the
\* system as it was handed out
RECURSIVE WorldOf(_, _, _)
WorldOf(sys, qv, j) ==
    IF j = 0 THEN Zero
    ELSE transform_mul(link_transform(fkc.made[fkc.made[sys].links], qv, j),
                       WorldOf(sys, qv, fkc.made[sys].link_parents[j] + 1))

\* C24: forward_kinematics never modifies the system or state it is given:
\* every object is afterwards as it was handed out; the returned system differs
\* from the given one only in the links' transform and transform2, the returned
\* state only in x; and what a call returned depends only on its own arguments,
\* whatever other calls were made on the same system with other q.
C24_ForwardKinematicsIsPure ==
    fkc # Off =>
        /\ \A r \in 1..Len(fkc.store) : fkc.store[r] = fkc.made[r]
        /\ \A c \in 1..Len(fkc.calls) :
              LET call == fkc.calls[c]
                  in_sys == fkc.store[call.sys]
                  out_sys == fkc.store[call.sys_out]
                  in_links == fkc.store[in_sys.links]
                  out_links == fkc.store[out_sys.links]
                  in_state == fkc.store[call.state]
                  out_state == fkc.store[call.state_out]
                  n == Len(in_sys.link_parents)
              IN  /\ [out_sys EXCEPT !.links = in_sys.links] = in_sys
                  /\ [out_links EXCEPT !.transform = in_links.transform,
                                       !.transform2 = in_links.transform2] = in_links
                  /\ [out_state EXCEPT !.x = in_state.x] = in_state
                  /\ out_state.x = [j \in 1..n |-> WorldOf(call.sys, in_state.q, j)]
                  /\ out_links.transform =
                         [j \in 1..n |-> link_transform(in_links, in_state.q, j)]

\* two calls on the given system with different q, whose results differ
C24_Witness ==
    /\ fkc # Off
    /\ Len(fkc.calls) = 2
    /\ fkc.calls[1].sys = 1 /\ fkc.calls[2].sys = 1
    /\ fkc.store[fkc.calls[1].state].q # fkc.store[fkc.calls[2].state].q
    /\ fkc.store[fkc.calls[1].state_out].x # fkc.store[fkc.calls[2].state_out].x
    /\ fkc.store[fkc.store[fkc.calls[1].sys_out].links].transform #
           fkc.store[fkc.store[1].links].transform

----------------------------------------------------------------------------
(* inverse_kinematics_endeffector, for a system of one link with one
   coordinate *)

MaxStarts == 2  \* random_q0_starts in 1..MaxStarts
MaxQ == 1       \* the optimizer returns params in -MaxQ..MaxQ

\* the link types preprocess_q handles itself, among those of the model
BuiltinTypes == {"px", "frozen"}

\* jnp.argmax: the first index of a largest value
argmax(a) == CHOOSE k \in 1..Len(a) :
                 /\ \A j \in 1..Len(a) : a[j] <= a[k]
                 /\ \A j \in 1..(k - 1) : a[j] < a[k]

\* jnp.argmin: the first index of a smallest value
argmin(a) == CHOOSE k \in 1..Len(a) :
                 /\ \A j \in 1..Len(a) : a[k] <= a[j]
                 /\ \A j \in 1..(k - 1) : a[k] < a[j]

\* the arguments of a call: the link type of the system, the target
\* coordinate, the caller's custom_joints hooks and solver, and
\* random_q0_starts when given
IkArgs ==
    LET base == [link_type : {"px", "rr"}, endeffector_x : -1..1,
                 custom_joints : {[kind |-> "dict", keys |-> {}],
                                  [kind |-> "dict", keys |-> {"rr"}]},
                 jaxopt_solver : {"LBFGS", "GradientDescent"}]
    IN  base \cup
        {[link_type |-> b.link_type, endeffector_x |-> b.endeffector_x,
          custom_joints |-> b.custom_joints, jaxopt_solver |-> b.jaxopt_solver,
          random_q0_starts |-> k] : b \in base, k \in 1..MaxStarts}

\* the arguments the recursive call of the multi-start branch receives: the
\* ninth positional argument, jaxopt_solver, binds to custom_joints, and
\* jaxopt_solver keeps its default
InnerArgs(a) ==
    [link_type |-> a.link_type, endeffector_x |-> a.endeffector_x,
     custom_joints |-> [kind |-> "solver", name |-> a.jaxopt_solver],
     jaxopt_solver |-> "LBFGS"]

\* preprocess_q raises for a link type that is neither built in nor hooked;
\* `link_type in custom_joints` raises when custom_joints is no container
PreprocessRaises(a) ==
    /\ a.link_type \notin BuiltinTypes
    /\ \/ a.custom_joints.kind # "dict"
       \/ a.link_type \notin a.custom_joints.keys

\* objective(q): the distance of the link from the target
objective(a, qv) == Abs(a.endeffector_x - qv)

\* solver.run(q0): the optimizer may stop at any params; its state.value is
\* the objective there
SolverRuns(a, q0, run) ==
    {[q0 |-> q0, params |-> p, value |-> objective(a, p), solver |-> a.jaxopt_solver,
      run |-> run] : p \in -MaxQ..MaxQ}

IkInit ==
    /\ RandOff
    /\ \E a \in IkArgs :
          ik = [pc |-> "start", args |-> a, q0s |-> <<>>, qs |-> <<>>, results |-> <<>>,
                best_q |-> [q |-> 0, run |-> 0], best_result |-> Off]
    /\ ci = Off /\ cdf = Off /\ fk = Off
    /\ reg = Off /\ imu = Off /\ xml = Off /\ det = Off
    /\ fkc = Off /\ ma = Off /\ log = Off /\ io = Off

\* random_q0_starts is None: q0 = State.create(sys).q, one run
IkSingleStart ==
    /\ ik.pc = "start"
    /\ "random_q0_starts" \notin DOMAIN ik.args
    /\ IF PreprocessRaises(ik.args) THEN ik' = [ik EXCEPT !.pc = "raised"]
       ELSE \E r \in SolverRuns(ik.args, 0, 1) :
                ik' = [ik EXCEPT !.pc = "done", !.q0s = <<0>>,
                                 !.best_q = [q |-> r.params, run |-> 1],
                                 !.best_result = r]
    /\ UNCHANGED <<randVars, ci, cdf, fk, reg, imu, xml, det, aux>>

\* q0s = jax.random.normal(key, shape=(random_q0_starts, sys.q_size()))
IkSampleStarts ==
    /\ ik.pc = "start"
    /\ "random_q0_starts" \in DOMAIN ik.args
    /\ \E q0s \in [1..ik.args.random_q0_starts -> 0..1] :
          ik' = [ik EXCEPT !.pc = "runs", !.q0s = q0s]
    /\ UNCHANGED <<randVars, ci, cdf, fk, reg, imu, xml, det, aux>>

\* one lane of the vmap: the recursive call from the next q0
IkRun ==
    /\ ik.pc = "runs"
    /\ Len(ik.results) < ik.args.random_q0_starts
    /\ LET run == Len(ik.results) + 1
           a == InnerArgs(ik.args)
       IN  IF PreprocessRaises(a) THEN ik' = [ik EXCEPT !.pc = "raised"]
           ELSE \E r \in SolverRuns(a, ik.q0s[run], run) :
                    ik' = [ik EXCEPT !.qs = Append(@, [q |-> r.params, run |-> run]),
                                     !.results = Append(@, r)]
    /\ UNCHANGED <<randVars, ci, cdf, fk, reg, imu, xml, det, aux>>

\* find best result
IkSelectBest ==
    /\ ik.pc = "runs"
    /\ Len(ik.results) = ik.args.random_q0_starts
    /\ LET best_q_index == argmin([k \in 1..Len(ik.results) |-> ik.results[k].value])
       IN  ik' = [ik EXCEPT !.pc = "done",
                            !.best_q = ik.qs[best_q_index],
                            !.best_result = ik.results[best_q_index]]
    /\ UNCHANGED <<randVars, ci, cdf, fk, reg, imu, xml, det, aux>>

IkNext ==
    \/ IkSingleStart
    \/ IkSampleStarts
    \/ IkRun
    \/ IkSelectBest

SpecIk == IkInit /\ [][IkNext]_vars

\* C14: with random_q0_starts = K a call that returns has run the optimizer
\* once from each of the K sampled initial configurations and returns the
\* configuration and the result of one run whose final objective value is
\* minimal among the K runs; the returned q and the returned diagnostics
\* belong to the same run.
C14_ReturnsBestRun ==
    (ik.pc = "done" /\ "random_q0_starts" \in DOMAIN ik.args) =>
        /\ Len(ik.results) = ik.args.random_q0_starts
        /\ \A k \in 1..Len(ik.results) :
              /\ ik.results[k].q0 = ik.q0s[k]
              /\ ik.best_result.value <= ik.results[k].value
        /\ ik.best_result = ik.results[ik.best_result.run]
        /\ ik.best_q.run = ik.best_result.run
        /\ ik.best_q.q = ik.best_result.params

\* two runs with different final values, the second one the better: it is the
\* one returned
C14_Witness ==
    /\ ik.pc = "done" /\ "random_q0_starts" \in DOMAIN ik.args
    /\ Len(ik.results) = 2
    /\ ik.results[2].value < ik.results[1].value
    /\ ik.best_result.run = 2

\* C28: in multi-start mode every optimizer run uses the configuration the
\* caller passed: it is a run a single-start call with the caller's
\* custom_joints hooks and solver could make from that q0, and the call raises
\* in preprocess_q only if such a single-start call would raise.
C28_RunsUseCallerConfiguration ==
    (ik # Off /\ "random_q0_starts" \in DOMAIN ik.args) =>
        /\ \A k \in 1..Len(ik.results) :
              ik.results[k] \in SolverRuns(ik.args, ik.q0s[k], k)
        /\ ik.pc = "raised" => PreprocessRaises(ik.args)

----------------------------------------------------------------------------
(* The joint type registry and register_rr_joint *)

MaxCalls == 3   \* register_rr_joint is called at most MaxCalls times
MaxWidth == 1   \* q_width and qd_width of other registrations: 0..MaxWidth

\* the joint types registered from the start, among those of the model
Builtins == ("frozen" :> [q_width |-> 0, qd_width |-> 0]) @@
            ("rx" :> [q_width |-> 1, qd_width |-> 1])

\* the tags other callers try to register
OtherTags == {"frozen", "rx", "hinge2", "ball"}

\* x_xy.register_new_joint_type(tag, joint_model, q_width, qd_width): asserts
\* that the tag is new
register_new_joint_type(joints, tag, q_width, qd_width) ==
    IF tag \in DOMAIN joints
    THEN [joints |-> joints, raised |-> TRUE]
    ELSE [joints |-> (tag :> [q_width |-> q_width, qd_width |-> qd_width]) @@ joints,
          raised |-> FALSE]

\* variant of register_rr_joint without the try / except
register_rr_joint_uncaught(joints) == register_new_joint_type(joints, "rr", 1, 0)

\* register_rr_joint: the AssertionError of the registration is swallowed
register_rr_joint(joints) ==
    [joints |-> register_new_joint_type(joints, "rr", 1, 0).joints, raised |-> FALSE]

RegInit ==
    /\ RandOff
    /\ reg = [pc |-> "on", joints |-> Builtins, n_joint_params |-> 1, calls |-> 0,
              last |-> [fn |-> "none", tag |-> "none", before |-> Builtins,
                        raised |-> FALSE]]
    /\ ci = Off /\ cdf = Off /\ fk = Off /\ ik = Off
    /\ imu = Off /\ xml = Off /\ det = Off
    /\ fkc = Off /\ ma = Off /\ log = Off /\ io = Off

\* some caller registers a joint type of its own
RegisterNewJointType ==
    /\ reg.pc = "on"
    /\ \E tag \in OtherTags : \E qw \in 0..MaxWidth : \E qdw \in 0..MaxWidth :
          LET r == register_new_joint_type(reg.joints, tag, qw, qdw)
          IN  reg' = [reg EXCEPT !.joints = r.joints,
                                 !.last = [fn |-> "register_new_joint_type", tag |-> tag,
                                           before |-> reg.joints, raised |-> r.raised]]
    /\ UNCHANGED <<randVars, ci, cdf, fk, ik, imu, xml, det, aux>>

\* register_rr_joint()
RegisterRrJoint ==
    /\ reg.pc = "on"
    /\ reg.calls < MaxCalls
    /\ LET r == register_rr_joint(reg.joints)
       IN  reg' = [reg EXCEPT !.n_joint_params = 3,
                              !.joints = r.joints,
                              !.calls = @ + 1,
                              !.last = [fn |-> "register_rr_joint", tag |-> "rr",
                                        before |-> reg.joints, raised |-> r.raised]]
    /\ UNCHANGED <<randVars, ci, cdf, fk, ik, imu, xml, det, aux>>

RegNext ==
    \/ RegisterNewJointType
    \/ RegisterRrJoint

SpecReg == RegInit /\ [][RegNext]_vars

----------------------------------------------------------------------------
(* load_sys_from_str. A document is a set of body elements 1..n below the
   worldbody element 0; the element numbers are arbitrary labels. *)

MaxBodies == 3  \* at most MaxBodies body elements

\* element b lies below the worldbody, at most k levels down
RECURSIVE BelowWorld(_, _, _)
BelowWorld(up, b, k) ==
    IF b = 0 THEN TRUE
    ELSE IF k = 0 THEN FALSE
    ELSE BelowWorld(up, up[b], k - 1)

\* the documents with n bodies: the enclosing element of every body, whether
\* siblings appear in falling label order, and the joint attribute of every body
Documents(n) ==
    {[n |-> n, up |-> u, rev |-> r, joint |-> j] :
        u \in {f \in [1..n -> 0..n] : \A b \in 1..n : BelowWorld(f, b, n)},
        r \in BOOLEAN,
        j \in [1..n -> {"rx", "frozen"}]}

\* the elements of S in document order
RECURSIVE InOrder(_, _)
InOrder(S, rev) ==
    IF S = {} THEN <<>>
    ELSE LET b == CHOOSE c \in S : \A d \in S : IF rev THEN d <= c ELSE c <= d
         IN  <<b>> \o InOrder(S \ {b}, rev)

\* body.findall("body"): the body elements directly inside element b
findall(doc, b) == InOrder({c \in 1..doc.n : doc.up[c] = b}, doc.rev)

\* body.attrib["name"]
name(b) == <<"body", b>>

\* variant of the recursive call that passes the last index handed out
parent_argument_last(current_link_idx, global_link_idx) == global_link_idx

\* the parent passed by process_body(subbodies, current_link_idx)
parent_argument(current_link_idx, global_link_idx) == current_link_idx

XmlInit ==
    /\ RandOff
    /\ \E n \in 1..MaxBodies : \E doc \in Documents(n) :
          xml = [pc |-> "bodies", doc |-> doc,
                 stack |-> <<[todo |-> findall(doc, 0), current_link_idx |-> -1]>>,
                 global_link_idx |-> -1,
                 link_parents |-> <<>>, link_types |-> <<>>, link_names |-> <<>>,
                 sys |-> Off]
    /\ ci = Off /\ cdf = Off /\ fk = Off /\ ik = Off
    /\ reg = Off /\ imu = Off /\ det = Off
    /\ fkc = Off /\ ma = Off /\ log = Off /\ io = Off

\* process_body(body, parent) up to its loop over the sub-bodies; the frame on
\* top of the stack is the loop that makes the call
ProcessBody ==
    /\ xml.pc = "bodies"
    /\ Len(xml.stack) > 0
    /\ LET top == xml.stack[Len(xml.stack)]
       IN  /\ Len(top.todo) > 0
           /\ LET body == Head(top.todo)
                  parent == parent_argument(top.current_link_idx, xml.global_link_idx)
                  current_link_idx == xml.global_link_idx + 1
                  rest == [top EXCEPT !.todo = Tail(@)]
                  frame == [todo |-> findall(xml.doc, body),
                            current_link_idx |-> current_link_idx]
              IN  xml' = [xml EXCEPT
                            !.global_link_idx = current_link_idx,
                            !.link_parents = (current_link_idx :> parent) @@ @,
                            !.link_types = (current_link_idx :> xml.doc.joint[body]) @@ @,
                            !.link_names = (current_link_idx :> name(body)) @@ @,
                            !.stack = Append(SubSeq(@, 1, Len(@) - 1), rest) \o <<frame>>]
    /\ UNCHANGED <<randVars, ci, cdf, fk, ik, reg, imu, det, aux>>

\* a loop over sub-bodies has no body left: process_body returns
ProcessBodyReturn ==
    /\ xml.pc = "bodies"
    /\ Len(xml.stack) > 1
    /\ Len(xml.stack[Len(xml.stack)].todo) = 0
    /\ xml' = [xml EXCEPT !.stack = SubSeq(@, 1, Len(@) - 1)]
    /\ UNCHANGED <<randVars, ci, cdf, fk, ik, reg, imu, det, aux>>

\* assert_order_then_to_list: the keys were inserted as 0, 1, 2, ...
to_list(d) == [k \in 1..Cardinality(DOMAIN d) |-> d[k - 1]]

\* the loop over the bodies of the worldbody is over: build the system
BuildSystem ==
    /\ xml.pc = "bodies"
    /\ Len(xml.stack) = 1
    /\ Len(xml.stack[1].todo) = 0
    /\ xml' = [xml EXCEPT !.pc = "done",
                          !.sys = [link_parents |-> to_list(xml.link_parents),
                                   link_types |-> to_list(xml.link_types),
                                   link_names |-> to_list(xml.link_names)]]
    /\ UNCHANGED <<randVars, ci, cdf, fk, ik, reg, imu, det, aux>>

XmlNext ==
    \/ ProcessBody
    \/ ProcessBodyReturn
    \/ BuildSystem

SpecXml == XmlInit /\ [][XmlNext]_vars

\* the bodies of the document in depth-first pre-order, below element b
RECURSIVE PreOrder(_, _)
RECURSIVE PreOrderAll(_, _)
PreOrder(doc, b) == <<b>> \o PreOrderAll(doc, findall(doc, b))

PreOrderAll(doc, bs) ==
    IF Len(bs) = 0 THEN <<>>
    ELSE PreOrder(doc, Head(bs)) \o PreOrderAll(doc, Tail(bs))

\* the index of body b in the system
IndexOf(b) == CHOOSE k \in 0..(Len(xml.sys.link_names) - 1) : xml.sys.link_names[k + 1] = name(b)

\* C19: in every system built by load_sys_from_str the bodies are numbered in
\* depth-first pre-order of the document, link_parents[i] < i for every link i,
\* the parent of a top-level body is -1 (and of a nested body the index of the
\* enclosing body), and link_parents, link_types and link_names hold one entry
\* per body at the same index.
C19_LinksInPreOrder ==
    xml.pc = "done" =>
        LET doc == xml.doc
            order == PreOrderAll(doc, findall(doc, 0))
        IN  /\ Len(xml.sys.link_parents) = doc.n
            /\ Len(xml.sys.link_types) = doc.n
            /\ Len(xml.sys.link_names) = doc.n
            /\ \A k \in 1..doc.n :
                  LET b == order[k]
                  IN  /\ xml.sys.link_names[k] = name(b)
                      /\ xml.sys.link_types[k] = doc.joint[b]
                      /\ xml.sys.link_parents[k] < k - 1
                      /\ xml.sys.link_parents[k] =
                             IF doc.up[b] = 0 THEN -1 ELSE IndexOf(doc.up[b])

\* a document where a body with a nested body is followed by a sibling, and
\* the labels are not in document order
C19_Witness ==
    /\ xml.pc = "done"
    /\ xml.doc.n = 3
    /\ xml.sys.link_parents = <<-1, 0, -1>>
    /\ xml.sys.link_names[1] = name(3)

----------------------------------------------------------------------------
(* sensors.imu. One measurement channel is followed through the pipeline, for
   two calls that get the same options and key but their own poses: raw[1] and
   raw[2] are what accelerometer / gyroscope return for the two calls. A signal
   is a sequence of numerators over a common denominator. *)

MaxFrames == 2  \* signals of 1..MaxFrames frames
MaxHalf == 2    \* windows up to 2 * MaxHalf + 1
MaxDelay == 1   \* an explicit delay is 0..MaxDelay

\* element p (0-based) of jnp.roll(arr_padded, k, axis=0)
roll(arr_padded, k, p) == At(arr_padded, (p - k) % Len(arr_padded))

\* the sum of the rolled arrays for shifts lo..hi at element p
RECURSIVE sum_rolled(_, _, _, _)
sum_rolled(arr_padded, lo, hi, p) ==
    IF lo > hi THEN 0
    ELSE roll(arr_padded, lo, p) + sum_rolled(arr_padded, lo + 1, hi, p)

\* variant of _moving_average that leaves the zeros of the padding in place
_moving_average_zero_padded(sig, window) ==
    LET n == Len(sig.num)
        half_window == (window - 1) \div 2
        arr_padded == [p \in 1..(n + window - 1) |->
                          IF p - 1 < half_window THEN 0
                          ELSE IF p - 1 >= n + half_window THEN 0
                          ELSE sig.num[p - half_window]]
    IN  [num |-> [k \in 1..n |->
                     sum_rolled(arr_padded, -half_window, half_window, half_window + k - 1)],
         den |-> sig.den * window]

\* _moving_average(arr, window) for an odd window > 1; the division by the
\* window goes to the denominator
_moving_average(sig, window) ==
    LET n == Len(sig.num)
        half_window == (window - 1) \div 2
        arr_padded == [p \in 1..(n + window - 1) |->
                          IF p - 1 < half_window THEN sig.num[1]
                          ELSE IF p - 1 >= n + half_window THEN sig.num[n]
                          ELSE sig.num[p - half_window]]
    IN  [num |-> [k \in 1..n |->
                     sum_rolled(arr_padded, -half_window, half_window, half_window + k - 1)],
         den |-> sig.den * window]

\* jnp.pad(arr, ((delay, 0), (0, 0)))[:-delay]
pad_delay(sig, delay) ==
    [num |-> [k \in 1..Len(sig.num) |-> IF k <= delay THEN 0 ELSE sig.num[k - delay]],
     den |-> sig.den]

\* imu_measurements[sensor] + noise + bias
add_noise_bias(sig, noise) ==
    [num |-> [k \in 1..Len(sig.num) |-> sig.num[k] + noise[k] * sig.den],
     den |-> sig.den]

\* the options of a call; smoothen_degree and delay may be absent (None)
ImuOptions ==
    LET base == [random_s2s_ori : BOOLEAN, quasi_physical : BOOLEAN,
                 low_pass_filter_pos : BOOLEAN, low_pass_filter_rot : BOOLEAN,
                 noisy : BOOLEAN]
        windows == {1, 2} \cup {2 * h + 1 : h \in 1..MaxHalf}
        delays == 0..MaxDelay
    IN  base
        \cup {b @@ ("smoothen_degree" :> w) : b \in base, w \in windows}
        \cup {b @@ ("delay" :> d) : b \in base, d \in delays}
        \cup {b @@ ("smoothen_degree" :> w) @@ ("delay" :> d) :
                  b \in base, w \in windows, d \in delays}

\* variant of the delay in force without the default for smoothing
delay_as_given(o) == IF "delay" \in DOMAIN o THEN o.delay ELSE -1

\* the delay in force at line 138: the argument, else the half window when
\* smoothing, else none (-1)
delay_in_force(o) ==
    IF "delay" \in DOMAIN o THEN o.delay
    ELSE IF "smoothen_degree" \in DOMAIN o THEN (o.smoothen_degree - 1) \div 2
    ELSE -1

\* variant of the order of the statements that adds the noise before smoothing
after_noise_first(stage) ==
    CASE stage = "s2s" -> "quasi_physical"
      [] stage = "quasi_physical" -> "low_pass_pos"
      [] stage = "low_pass_pos" -> "low_pass_rot"
      [] stage = "low_pass_rot" -> "measure"
      [] stage = "measure" -> "noise"
      [] stage = "noise" -> "smooth"
      [] stage = "smooth" -> "delay"
      [] stage = "delay" -> "done"

\* the order of the statements of imu
after(stage) ==
    CASE stage = "s2s" -> "quasi_physical"
      [] stage = "quasi_physical" -> "low_pass_pos"
      [] stage = "low_pass_pos" -> "low_pass_rot"
      [] stage = "low_pass_rot" -> "measure"
      [] stage = "measure" -> "smooth"
      [] stage = "smooth" -> "delay"
      [] stage = "delay" -> "noise"
      [] stage = "noise" -> "done"

ImuInit ==
    /\ RandOff
    /\ \E o \in ImuOptions : \E n \in 1..MaxFrames :
       \E r1 \in [1..n -> 0..1] : \E r2 \in [1..n -> 0..1] :
          imu = [pc |-> "s2s", opts |-> o, raw |-> <<r1, r2>>,
                 xs |-> <<>>, measurements |-> <<>>, noise |-> [k \in 1..n |-> 0],
                 applied |-> <<>>]
    /\ ci = Off /\ cdf = Off /\ fk = Off /\ ik = Off
    /\ reg = Off /\ xml = Off /\ det = Off
    /\ fkc = Off /\ ma = Off /\ log = Off /\ io = Off

\* a statement on the poses xs: applied when its option is set
PoseStage(stage, enabled) ==
    /\ imu.pc = stage
    /\ imu' = [imu EXCEPT !.pc = after(stage),
                          !.xs = IF enabled THEN Append(@, stage) ELSE @,
                          !.applied = IF enabled THEN Append(@, stage) ELSE @]
    /\ UNCHANGED <<randVars, ci, cdf, fk, ik, reg, xml, det, aux>>

\* a statement on the measurements: they become `result` when its option is set
MeasurementStage(stage, enabled, result) ==
    /\ imu.pc = stage
    /\ imu' = [imu EXCEPT !.pc = after(stage),
                          !.measurements = IF enabled THEN result ELSE @,
                          !.applied = IF enabled THEN Append(@, stage) ELSE @]
    /\ UNCHANGED <<randVars, ci, cdf, fk, ik, reg, xml, det, aux>>

ImuS2sRotation == PoseStage("s2s", imu.opts.random_s2s_ori)

ImuQuasiPhysical == PoseStage("quasi_physical", imu.opts.quasi_physical)

ImuLowPassPos == PoseStage("low_pass_pos", imu.opts.low_pass_filter_pos)

ImuLowPassRot == PoseStage("low_pass_rot", imu.opts.low_pass_filter_rot)

\* measurements = {"acc": accelerometer(xs, ...), "gyr": gyroscope(xs.rot, dt)}
ImuMeasure ==
    /\ imu.pc = "measure"
    /\ imu' = [imu EXCEPT !.pc = after("measure"),
                          !.measurements = [c \in 1..2 |-> [num |-> imu.raw[c], den |-> 1]],
                          !.applied = Append(@, "measure")]
    /\ UNCHANGED <<randVars, ci, cdf, fk, ik, reg, xml, det, aux>>

\* the moving average; its assertions reject an even window and a window of 1
ImuSmooth ==
    LET on == "smoothen_degree" \in DOMAIN imu.opts
        w == IF on THEN imu.opts.smoothen_degree ELSE 0
    IN  IF imu.pc = "smooth" /\ on /\ ~(w % 2 = 1 /\ w > 1)
        THEN /\ imu' = [imu EXCEPT !.pc = "raised"]
             /\ UNCHANGED <<randVars, ci, cdf, fk, ik, reg, xml, det, aux>>
        ELSE MeasurementStage("smooth", on,
                 [c \in DOMAIN imu.measurements |-> _moving_average(imu.measurements[c], w)])

ImuDelay ==
    LET delay == delay_in_force(imu.opts)
    IN  MeasurementStage("delay", delay > 0,
            [c \in DOMAIN imu.measurements |-> pad_delay(imu.measurements[c], delay)])

\* add_noise_bias: the same key, so the same noise and bias, in both calls
ImuNoise ==
    /\ imu.pc = "noise"
    /\ \E noise \in [1..Len(imu.raw[1]) -> 0..1] :
          LET _noise(sig) == add_noise_bias(sig, noise)
          IN  /\ imu.opts.noisy \/ noise = imu.noise
              /\ imu' = [imu EXCEPT
                            !.pc = after("noise"),
                            !.noise = noise,
                            !.measurements = IF imu.opts.noisy
                                             THEN [c \in DOMAIN @ |-> _noise(@[c])]
                                             ELSE @,
                            !.applied = IF imu.opts.noisy THEN Append(@, "noise") ELSE @]
    /\ UNCHANGED <<randVars, ci, cdf, fk, ik, reg, xml, det, aux>>

ImuNext ==
    \/ ImuS2sRotation
    \/ ImuQuasiPhysical
    \/ ImuLowPassPos
    \/ ImuLowPassRot
    \/ ImuMeasure
    \/ ImuSmooth
    \/ ImuDelay
    \/ ImuNoise

SpecImu == ImuInit /\ [][ImuNext]_vars

\* the raw signal of call c
Raw(c) == [num |-> imu.raw[c], den |-> 1]

\* C16: when smoothen_degree = w is given to imu and delay is omitted, the
\* delay is the half window (w-1)//2: the output keeps the input length, and
\* two calls whose raw measurements agree on frames 0..t give the same output
\* at frame t; without noise the output is the moving average shifted by the
\* half window.
C16_DefaultDelayMakesCausal ==
    (/\ imu.pc = "done"
     /\ "smoothen_degree" \in DOMAIN imu.opts
     /\ "delay" \notin DOMAIN imu.opts) =>
        LET w == imu.opts.smoothen_degree
            n == Len(imu.raw[1])
            out1 == imu.measurements[1]
            out2 == imu.measurements[2]
        IN  /\ Len(out1.num) = n /\ Len(out2.num) = n
            /\ out1.den = out2.den
            /\ \A k \in 1..n :
                  (\A j \in 1..k : imu.raw[1][j] = imu.raw[2][j]) => out1.num[k] = out2.num[k]
            /\ ~imu.opts.noisy =>
                  out1 = pad_delay(_moving_average(Raw(1), w), (w - 1) \div 2)

\* two calls smoothed with window 3 and the default delay whose raw signals
\* differ only in the last frame: the outputs differ in the last frame only
C16_Witness ==
    /\ imu.pc = "done"
    /\ "smoothen_degree" \in DOMAIN imu.opts /\ "delay" \notin DOMAIN imu.opts
    /\ imu.opts.smoothen_degree = 3
    /\ Len(imu.raw[1]) = 2
    /\ imu.raw[1][1] = imu.raw[2][1] /\ imu.raw[1][2] # imu.raw[2][2]
    /\ imu.measurements[1].num[1] = imu.measurements[2].num[1]
    /\ imu.measurements[1].num[2] # imu.measurements[2].num[2]

\* the enabled ones of the given stages, in the given order
RECURSIVE Enabled(_, _)
Enabled(stages, on) ==
    IF Len(stages) = 0 THEN <<>>
    ELSE (IF on[Head(stages)] THEN <<Head(stages)>> ELSE <<>>) \o Enabled(Tail(stages), on)

\* which stages the options of the call enable
StageOn ==
    [stage \in {"s2s", "quasi_physical", "low_pass_pos", "low_pass_rot", "measure",
                 "smooth", "delay", "noise"} |->
        CASE stage = "s2s" -> imu.opts.random_s2s_ori
          [] stage = "quasi_physical" -> imu.opts.quasi_physical
          [] stage = "low_pass_pos" -> imu.opts.low_pass_filter_pos
          [] stage = "low_pass_rot" -> imu.opts.low_pass_filter_rot
          [] stage = "measure" -> TRUE
          [] stage = "smooth" -> "smoothen_degree" \in DOMAIN imu.opts
          [] stage = "delay" -> delay_in_force(imu.opts) > 0
          [] stage = "noise" -> imu.opts.noisy]

\* C17: for every combination of options a finished imu call has applied its
\* enabled stages in the order s2s rotation, quasi-physical smoothing, low-pass
\* of position, low-pass of orientation, raw measurement, moving average,
\* delay, noise and bias; a disabled stage leaves its input unchanged; the
\* noise is added to the smoothed and delayed signal and is itself neither
\* smoothed nor delayed.
C17_StagesInFixedOrder ==
    imu.pc = "done" =>
        LET smoothed == IF StageOn["smooth"]
                        THEN _moving_average(Raw(1), imu.opts.smoothen_degree) ELSE Raw(1)
            delayed == IF StageOn["delay"]
                       THEN pad_delay(smoothed, delay_in_force(imu.opts)) ELSE smoothed
        IN  /\ imu.applied = Enabled(<<"s2s", "quasi_physical", "low_pass_pos",
                                       "low_pass_rot", "measure", "smooth", "delay",
                                       "noise">>, StageOn)
            /\ imu.xs = Enabled(<<"s2s", "quasi_physical", "low_pass_pos",
                                  "low_pass_rot">>, StageOn)
            /\ imu.measurements[1].den = delayed.den
            /\ \A k \in 1..Len(imu.raw[1]) :
                  imu.measurements[1].num[k] =
                      delayed.num[k] + (IF imu.opts.noisy THEN imu.noise[k] * delayed.den ELSE 0)

\* a call with every stage enabled and noise on the first, delayed frame
C17_Witness ==
    /\ imu.pc = "done"
    /\ Len(imu.applied) = 8
    /\ imu.noise[1] = 1
    /\ imu.measurements[1].num[1] = imu.measurements[1].den

----------------------------------------------------------------------------
(* _moving_average on arbitrary signals and windows *)

MaxSamples == 3     \* a signal has 1..MaxSamples samples
MaxVal == 2         \* with values 0..MaxVal

MaInit ==
    /\ RandOff
    /\ \E n \in 1..MaxSamples : \E arr \in [1..n -> 0..MaxVal] :
       \E window \in 1..(2 * MaxHalf + 1) :
          ma = [pc |-> "ready", arr |-> arr, window |-> window]
    /\ ci = Off /\ cdf = Off /\ fk = Off /\ ik = Off
    /\ reg = Off /\ imu = Off /\ xml = Off /\ det = Off
    /\ fkc = Off /\ log = Off /\ io = Off

\* _moving_average(arr, window): the two assertions, then the average
MovingAverage ==
    /\ ma # Off /\ ma.pc = "ready"
    /\ IF ~(ma.window % 2 = 1) \/ ~(ma.window > 1)
       THEN ma' = [ma EXCEPT !.pc = "raised"]
       ELSE ma' = [pc |-> "done", arr |-> ma.arr, window |-> ma.window,
                   arr_smooth |-> _moving_average([num |-> ma.arr, den |-> 1], ma.window)]
    /\ UNCHANGED <<randVars, ci, cdf, fk, ik, reg, imu, xml, det, fkc, log, io>>

MaNext == MovingAverage

SpecMa == MaInit /\ [][MaNext]_vars

\* the sum of arr[clamp(t + k, 0, N - 1)] over k = lo..hi, t 0-based
RECURSIVE ClampedSum(_, _, _, _)
ClampedSum(arr, tt, lo, hi) ==
    IF lo > hi THEN 0
    ELSE arr[clip(tt + lo, 0, Len(arr) - 1) + 1] + ClampedSum(arr, tt, lo + 1, hi)

\* C25: for an odd window w >= 3 with h = (w - 1) / 2 and a signal of N >= 1
\* samples, _moving_average returns N samples whose element t is the mean of
\* arr[clamp(t + k, 0, N - 1)] over k = -h..h; an even window and a window of 1
\* are rejected.
C25_MovingAverageReplicatesEdges ==
    (ma # Off /\ ma.pc # "ready") =>
        LET w == ma.window
            h == (w - 1) \div 2
            N == Len(ma.arr)
        IN  IF w % 2 = 0 \/ w = 1
            THEN ma.pc = "raised"
            ELSE /\ ma.pc = "done"
                 /\ Len(ma.arr_smooth.num) = N
                 /\ ma.arr_smooth.den = w
                 /\ \A k \in 1..N :
                       ma.arr_smooth.num[k] = ClampedSum(ma.arr, k - 1, -h, h)

\* a window wider than the signal whose ends differ: the first mean is made of
\* three copies of the first sample and two of the last
C25_Witness ==
    /\ ma # Off /\ ma.pc = "done"
    /\ ma.window = 5 /\ Len(ma.arr) = 2
    /\ ma.arr[1] = 0 /\ ma.arr[2] = 2
    /\ ma.arr_smooth.num = <<4, 6>>

----------------------------------------------------------------------------
(* DictLogger. A metrics dictionary is nested at most once; a flattened key is
   the path of its keys, <<"mae", "deg">> for "mae_deg". *)

MaxLogs == 2        \* log is called at most MaxLogs times
MaxMetric == 2      \* a metric value is one of 0..MaxMetric

\* the flattened keys in the order a dict rebuilt by jax.tree_map iterates
SortedKeys == <<(<<"loss">>), <<"mae", "deg">>, <<"mae", "rad">>>>

\* the key sets of the metrics a training loop logs
Shapes == {{<<"loss">>}, {<<"loss">>, <<"mae", "deg">>},
           {<<"loss">>, <<"mae", "deg">>, <<"mae", "rad">>}}

\* the nested metrics with the flattened key set ks
Nested(ks) ==
    {[top \in {p[1] : p \in ks} |->
         IF <<top>> \in ks THEN [leaf |-> vals[<<top>>]]
         ELSE [dict |-> [sub \in {p[2] : p \in {r \in ks : r[1] = top}} |->
                             vals[<<top, sub>>]]]]
     : vals \in [ks -> 0..MaxMetric]}

\* _flatten_dict(d): one entry per leaf, keyed by the joined path
_flatten_dict(d) ==
    LET paths == UNION {IF "leaf" \in DOMAIN d[top] THEN {<<top>>}
                        ELSE {<<top, sub>> : sub \in DOMAIN d[top].dict}
                        : top \in DOMAIN d}
    IN  [p \in paths |-> IF Len(p) = 1 THEN d[p[1]].leaf ELSE d[p[1]].dict[p[2]]]

\* the keys of a flattened dict in iteration order
keys_in_order(d) == SelectSeq(SortedKeys, LAMBDA p : p \in DOMAIN d)

\* tree_batch([metrics]): every leaf gets a leading axis of length one
tree_batch1(metrics) == [p \in DOMAIN metrics |-> <<metrics[p]>>]

\* tree_batch([a, b], True): the leaves are joined along the leading axis
tree_batch_along(a, b) == [p \in DOMAIN a |-> a[p] \o b[p]]

\* the `for key in metrics` loop of log from position k on; existing_keys is
\* set to [] at the top of every iteration
RECURSIVE log_loop(_, _, _, _, _)
log_loop(keys, k, _logs, metrics, existing_keys) ==
    IF k > Len(keys) THEN [_logs |-> _logs, existing_keys |-> existing_keys]
    ELSE LET key == keys[k]
             fresh == <<>>
         IN  IF key \in DOMAIN _logs
             THEN log_loop(keys, k + 1, _logs, metrics, Append(fresh, key))
             ELSE log_loop(keys, k + 1, (key :> metrics[key]) @@ _logs, metrics, fresh)

\* dict.update(other)
update(d, other) == other @@ d

LogInit ==
    /\ RandOff
    /\ \E ks \in Shapes : log = [_logs |-> <<>>, shape |-> ks, logged |-> <<>>]
    /\ ci = Off /\ cdf = Off /\ fk = Off /\ ik = Off
    /\ reg = Off /\ imu = Off /\ xml = Off /\ det = Off
    /\ fkc = Off /\ ma = Off /\ io = Off

\* DictLogger.log(metrics); `logged` keeps the flattened metrics of every call
Log ==
    /\ log # Off
    /\ Len(log.logged) < MaxLogs
    /\ \E nested \in Nested(log.shape) :
          LET flat == _flatten_dict(nested)
              metrics == tree_batch1(flat)
              looped == log_loop(keys_in_order(metrics), 1, log._logs, metrics, <<>>)
              existing_keys == {looped.existing_keys[k] : k \in 1..Len(looped.existing_keys)}
          IN  log' = [log EXCEPT
                        !.logged = Append(@, flat),
                        !._logs =
                            IF Len(looped.existing_keys) > 0
                            THEN update(looped._logs,
                                     tree_batch_along(
                                         [key \in existing_keys |-> looped._logs[key]],
                                         [key \in existing_keys |-> metrics[key]]))
                            ELSE looped._logs]
    /\ UNCHANGED <<randVars, ci, cdf, fk, ik, reg, imu, xml, det, fkc, ma, io>>

LogNext == Log

SpecLog == LogInit /\ [][LogNext]_vars

\* C29: after n calls of log with metrics of the same flattened keys, the
\* series stored for every key holds exactly the n logged values in call
\* order, also for metrics with more than one key.
C29_SeriesHoldEveryLoggedValue ==
    (log # Off /\ Len(log.logged) >= 1) =>
        /\ DOMAIN log._logs = log.shape
        /\ \A key \in log.shape :
              log._logs[key] = [c \in 1..Len(log.logged) |-> log.logged[c][key]]

----------------------------------------------------------------------------
(* save_sys_to_str followed by load_sys_from_str. The body element written for
   link i carries the label i + 1, so that name(i + 1) is the link's name. *)

\* the loops `for child_idx, parent_idx in enumerate(sys.link_parents)` of
\* save_sys_to_str and process_link, from child_idx on, and process_link: the
\* body elements in the order they are created, each with the element it is
\* created in (0 is the worldbody)
RECURSIVE process_link(_, _, _)
RECURSIVE enumerate_children(_, _, _)
process_link(sys, link_idx, parent_elem) ==
    <<[body |-> link_idx + 1, inside |-> parent_elem,
       joint |-> sys.link_types[link_idx + 1]]>>
    \o enumerate_children(sys, link_idx, 0)

enumerate_children(sys, link_idx, child_idx) ==
    IF child_idx = Len(sys.link_parents) THEN <<>>
    ELSE (IF sys.link_parents[child_idx + 1] = link_idx
          THEN process_link(sys, child_idx, link_idx + 1)
          ELSE <<>>)
         \o enumerate_children(sys, link_idx, child_idx + 1)

\* save_sys_to_str(sys): the document made of the created elements; sub-elements
\* are appended, so siblings stand in the order of their link indices
save_sys_to_str(sys) ==
    LET bodies == enumerate_children(sys, -1, 0)
        labels == {bodies[k].body : k \in 1..Len(bodies)}
        elem(b) == bodies[CHOOSE k \in 1..Len(bodies) : bodies[k].body = b]
    IN  [n |-> Cardinality(labels),
         up |-> [b \in labels |-> elem(b).inside],
         rev |-> FALSE,
         joint |-> [b \in labels |-> elem(b).joint],
         bodies |-> bodies]

\* the systems with n links: any parent array with link_parents[i] < i
Systems(n) ==
    {[link_parents |-> [k \in 1..n |-> lp[k - 1]],
      link_types |-> lt,
      link_names |-> [k \in 1..n |-> name(k)]] :
        lp \in ParentArrays(n), lt \in [1..n -> {"rx", "frozen"}]}

IoInit ==
    /\ RandOff
    /\ \E n \in 1..MaxBodies : \E sys \in Systems(n) :
          io = [pc |-> "sys", sys |-> sys, xml_str |-> Off]
    /\ ci = Off /\ cdf = Off /\ fk = Off /\ ik = Off
    /\ reg = Off /\ imu = Off /\ xml = Off /\ det = Off
    /\ fkc = Off /\ ma = Off /\ log = Off

SaveSysToStr ==
    /\ io # Off /\ io.pc = "sys"
    /\ io' = [io EXCEPT !.pc = "saved", !.xml_str = save_sys_to_str(io.sys)]
    /\ UNCHANGED <<randVars, ci, cdf, fk, ik, reg, imu, xml, det, fkc, ma, log>>

\* load_sys_from_str(xml_str) up to its loop over the bodies of the worldbody
LoadSysFromStr ==
    /\ io # Off /\ io.pc = "saved"
    /\ io' = [io EXCEPT !.pc = "loading"]
    /\ xml' = [pc |-> "bodies", doc |-> io.xml_str,
               stack |-> <<[todo |-> findall(io.xml_str, 0), current_link_idx |-> -1]>>,
               global_link_idx |-> -1,
               link_parents |-> <<>>, link_types |-> <<>>, link_names |-> <<>>,
               sys |-> Off]
    /\ UNCHANGED <<randVars, ci, cdf, fk, ik, reg, imu, det, fkc, ma, log>>

IoNext ==
    \/ SaveSysToStr
    \/ LoadSysFromStr
    \/ ProcessBody
    \/ ProcessBodyReturn
    \/ BuildSystem

SpecIo == IoInit /\ [][IoNext]_vars

\* C30: for every system with link_parents[i] < i, save_sys_to_str writes every
\* link exactly once, inside the element of its parent, and load_sys_from_str
\* of the result has the same link_names, link_types and link_parents at the
\* same indices.
C30_SaveLoadPreservesIndices ==
    /\ (io # Off /\ io.pc # "sys") =>
          LET bodies == io.xml_str.bodies
              n == Len(io.sys.link_parents)
          IN  /\ Len(bodies) = n
              /\ \A j \in 1..n : \E k \in 1..n :
                    /\ bodies[k].body = j
                    /\ bodies[k].inside = io.sys.link_parents[j] + 1
    /\ (io # Off /\ xml # Off /\ xml.pc = "done") =>
          /\ xml.sys.link_names = io.sys.link_names
          /\ xml.sys.link_types = io.sys.link_types
          /\ xml.sys.link_parents = io.sys.link_parents

----------------------------------------------------------------------------
(* Repeated generator calls. A PRNG key is the path of splits from its seed;
   the value a key yields for given bounds is fixed the first time it is drawn
   (det.memo) and the same from then on. *)

\* random.split(key): the new key and the key to consume
split(key) == [key |-> Append(key, 0), consume |-> Append(key, 1)]

\* the values a draw with this key from the set S can return
Draw(memo, key, S) ==
    IF \E e \in memo : e.key = key /\ e.S = S
    THEN {(CHOOSE e \in memo : e.key = key /\ e.S = S).val}
    ELSE S

\* the PRNG as known after the draw
Drawn(memo, key, S, v) == memo \cup {[key |-> key, S |-> S, val |-> v]}

\* the seeds of the calls: the first and the last call get the same keys, the
\* call in between, if any, other ones; a call in between is explored for the
\* calls that make a single outer step
Plans(c) == IF c.t_min > c.T THEN {<<1, 1>>, <<1, 2, 1>>} ELSE {<<1, 1>>}

\* PRNGKey(seed) for key_t / key and for key_ang
SeedKeys(seed) == [key_t |-> <<2 * seed>>, key_ang |-> <<2 * seed + 1>>]

\* variant of the keys a call starts from: those the previous call ended with
StartKeysCarried(seed, left) == left

\* the keys a call starts from: its arguments (val_outer)
StartKeys(seed, left) == SeedKeys(seed)

\* the calls that are repeated: short ones, with at most one redraw
DetConfigs ==
    {[c EXCEPT !.max_iter = m] :
        c \in {a \in AngleConfigs : a.T = 1 /\ a.Ts = 1 /\ a.t_max <= a.t_min + 1
                                      /\ a.max_iter = 0},
        m \in 0..1}
    \cup
    {[c EXCEPT !.max_it = m] :
        c \in {a \in PosConfigs : a.T = 1 /\ a.Ts = 1 /\ a.t_max <= a.t_min + 1
                                    /\ a.max_it = 0},
        m \in 0..1}

DetInit ==
    /\ cfg \in DetConfigs
    /\ pc = "outer"
    /\ i = 1
    /\ t = 0
    /\ phi = IF cfg.mode = "angle" THEN cfg.ANG_0 ELSE 0
    /\ t_pre = 0
    /\ x = 0
    /\ x_pre = 0
    /\ dt = 0
    /\ ii = 0
    /\ next_phi = 0
    /\ BUF = Prealloc(Capacity(cfg.T, cfg.t_min),
                      IF cfg.mode = "angle" THEN cfg.ANG_0 ELSE cfg.POS_0)
    /\ produced = <<BUF[1]>>
    /\ q = <<>>
    /\ \E plan \in Plans(cfg) :
          det = [pc |-> "on", plan |-> plan, call |-> 1,
                 key_t |-> SeedKeys(plan[1]).key_t,
                 key_ang |-> SeedKeys(plan[1]).key_ang,
                 key |-> <<>>, memo |-> {},
                 first |-> [produced |-> <<>>, q |-> <<>>]]
    /\ ci = Off /\ cdf = Off /\ fk = Off /\ ik = Off
    /\ reg = Off /\ imu = Off /\ xml = Off
    /\ fkc = Off /\ ma = Off /\ log = Off /\ io = Off

\* body_fn_outer of the angle generator with its keys: key_t gives dt, key_ang
\* gives the key of the rejection loop
DetAngOuterBegin ==
    /\ cfg.mode = "angle"
    /\ LET kt == split(det.key_t)
           ka == split(det.key_ang)
           S == cfg.t_min..cfg.t_max
       IN  \E d \in Draw(det.memo, kt.consume, S) :
               /\ AngOuterBeginDraw(d)
               /\ det' = [det EXCEPT !.key_t = kt.key, !.key_ang = ka.key,
                                      !.key = ka.consume,
                                      !.memo = Drawn(@, kt.consume, S, d)]
    /\ UNCHANGED <<ci, cdf, fk, ik, reg, imu, xml, aux>>

\* body_fn of the rejection loop with its key
DetAngInnerBody ==
    /\ cfg.mode = "angle"
    /\ LET k == split(det.key)
           S == next_phi_set(cfg.range_of_motion, cfg.range_of_motion_method,
                             cfg.dang_min, cfg.dang_max, dt, phi)
       IN  \E cand \in Draw(det.memo, k.consume, S) :
               /\ AngInnerBodyDraw(cand)
               /\ det' = [det EXCEPT !.key = k.key,
                                      !.memo = Drawn(@, k.consume, S, cand)]
    /\ UNCHANGED <<ci, cdf, fk, ik, reg, imu, xml, aux>>

\* body_fn_outer of the position generator with its key, which goes on to the
\* inner loop
DetPosOuterBegin ==
    /\ cfg.mode = "position"
    /\ LET k == split(det.key_t)
           S == cfg.t_min..cfg.t_max
       IN  \E d \in Draw(det.memo, k.consume, S) :
               /\ PosOuterBeginDraw(d)
               /\ det' = [det EXCEPT !.key_t = k.key,
                                      !.memo = Drawn(@, k.consume, S, d)]
    /\ UNCHANGED <<ci, cdf, fk, ik, reg, imu, xml, aux>>

\* body_fn_inner with its key, which comes back to the outer loop
DetPosInnerBody ==
    /\ cfg.mode = "position"
    /\ LET k == split(det.key_t)
           S == dx_set(ii, t - t_pre, cfg)
       IN  \E dx \in Draw(det.memo, k.consume, S) :
               /\ PosInnerBodyDraw(dx)
               /\ det' = [det EXCEPT !.key_t = k.key,
                                      !.memo = Drawn(@, k.consume, S, dx)]
    /\ UNCHANGED <<ci, cdf, fk, ik, reg, imu, xml, aux>>

\* the call has returned; the next call of the plan starts with the same
\* parameters and its own keys
DetNextCall ==
    /\ pc = "done"
    /\ det.call < Len(det.plan)
    /\ pc' = "outer"
    /\ i' = 1
    /\ t' = 0
    /\ phi' = IF cfg.mode = "angle" THEN cfg.ANG_0 ELSE 0
    /\ t_pre' = 0
    /\ x' = 0
    /\ x_pre' = 0
    /\ dt' = 0
    /\ ii' = 0
    /\ next_phi' = 0
    /\ BUF' = Prealloc(Capacity(cfg.T, cfg.t_min),
                       IF cfg.mode = "angle" THEN cfg.ANG_0 ELSE cfg.POS_0)
    /\ produced' = <<BUF'[1]>>
    /\ q' = <<>>
    /\ LET seed == det.plan[det.call + 1]
           left == [key_t |-> det.key_t, key_ang |-> det.key_ang]
       IN  det' = [det EXCEPT
                     !.call = @ + 1,
                     !.key_t = StartKeys(seed, left).key_t,
                     !.key_ang = StartKeys(seed, left).key_ang,
                     !.key = <<>>,
                     !.first = IF det.call = 1 THEN [produced |-> produced, q |-> q] ELSE @]
    /\ UNCHANGED <<cfg, ci, cdf, fk, ik, reg, imu, xml, aux>>

DetNext ==
    \/ DetAngOuterBegin
    \/ DetAngInnerBody
    \/ AngOuterEnd
    \/ AngResample
    \/ DetPosOuterBegin
    \/ DetPosInnerBody
    \/ PosOuterEnd
    \/ PosResample
    \/ DetNextCall

SpecDet == DetInit /\ [][DetNext]_vars

\* C11: a call of random_angle_over_time or random_position_over_time with the
\* keys and parameters of an earlier call returns the same breakpoint sequence
\* and the same output, whatever call was made in between.
C11_SameKeysSameTrajectory ==
    (det.pc = "on" /\ pc = "done" /\ det.call = Len(det.plan)) =>
        /\ produced = det.first.produced
        /\ q = det.first.q

\* the third call repeats the first after a call with other keys that made
\* other draws; the breakpoint was found after a rejection
C11_Witness ==
    /\ det.pc = "on" /\ pc = "done"
    /\ det.call = 3
    /\ ii > 1
    /\ \E e \in det.memo : \E f \in det.memo :
          /\ e.key[1] # f.key[1] /\ e.S = f.S /\ e.val # f.val
          /\ Tail(e.key) = Tail(f.key)
    /\ q = det.first.q

====
